---- MODULE Spec2Model ----
(***************************************************************************)
(* Model of the DB_Frontend administrative console:                        *)
(*   - EntryDetailComponent: record form builder, value codec, change-set  *)
(*     differ and save() (entry-detail.component.ts)                       *)
(*   - PersonDossierService: ETag cache (person-dossier.service.ts)        *)
(*   - PersonDossierComponent: request-token guard                         *)
(*   - EntryDetailRelationsComponent: loadPersonRelations                  *)
(*                                                                         *)
(* JavaScript strings are sequences of one-character strings, so that      *)
(* trim, toLowerCase, endsWith, JSON.parse and the date regexes are        *)
(* computed rather than assumed.                                           *)
(***************************************************************************)
EXTENDS Integers, Sequences, FiniteSets, TLC

(***************************************************************************)
(* String primitives of String.prototype                                  *)
(***************************************************************************)
UpperToLower ==
  [A |-> "a", B |-> "b", C |-> "c", D |-> "d", E |-> "e", F |-> "f", G |-> "g",
   H |-> "h", I |-> "i", J |-> "j", K |-> "k", L |-> "l", M |-> "m", N |-> "n",
   O |-> "o", P |-> "p", Q |-> "q", R |-> "r", S |-> "s", T |-> "t", U |-> "u",
   V |-> "v", W |-> "w", X |-> "x", Y |-> "y", Z |-> "z"]

toLowerCase(s) ==
  [i \in 1..Len(s) |-> IF s[i] \in DOMAIN UpperToLower THEN UpperToLower[s[i]] ELSE s[i]]

startsWith(s, p) ==
  Len(p) <= Len(s) /\ SubSeq(s, 1, Len(p)) = p

endsWith(s, p) ==
  Len(p) <= Len(s) /\ SubSeq(s, Len(s) - Len(p) + 1, Len(s)) = p

includes(s, p) ==
  \E i \in 1..(Len(s) - Len(p) + 1) : SubSeq(s, i, i + Len(p) - 1) = p

WhiteSpace == {" ", "\n", "\t"}

RECURSIVE trimStart(_)
trimStart(s) ==
  IF s # <<>> /\ Head(s) \in WhiteSpace THEN trimStart(Tail(s)) ELSE s

RECURSIVE trimEnd(_)
trimEnd(s) ==
  IF s # <<>> /\ s[Len(s)] \in WhiteSpace THEN trimEnd(SubSeq(s, 1, Len(s) - 1)) ELSE s

trim(s) == trimEnd(trimStart(s))

Digits == {"0", "1", "2", "3", "4", "5", "6", "7", "8", "9"}

DigitVal ==
  [c \in Digits |-> CASE c = "0" -> 0 [] c = "1" -> 1 [] c = "2" -> 2 [] c = "3" -> 3
                      [] c = "4" -> 4 [] c = "5" -> 5 [] c = "6" -> 6 [] c = "7" -> 7
                      [] c = "8" -> 8 [] c = "9" -> 9]

DigitChar == <<"0", "1", "2", "3", "4", "5", "6", "7", "8", "9">>

AllDigits(s) == \A i \in 1..Len(s) : s[i] \in Digits

RECURSIVE DigitsToNat(_)
DigitsToNat(s) ==
  IF s = <<>> THEN 0 ELSE 10 * DigitsToNat(SubSeq(s, 1, Len(s) - 1)) + DigitVal[s[Len(s)]]

RECURSIVE NatToDigits(_)
NatToDigits(n) ==
  IF n < 10 THEN <<DigitChar[n + 1]>> ELSE NatToDigits(n \div 10) \o <<DigitChar[(n % 10) + 1]>>

\* Number.prototype.toString / String(n) for integers
IntToString(n) == IF n < 0 THEN <<"-">> \o NatToDigits(-n) ELSE NatToDigits(n)

\* String.prototype.padStart(2, '0') applied to String(num)
pad(n) == IF n >= 0 /\ n < 10 THEN <<"0">> \o NatToDigits(n) ELSE IntToString(n)

(***************************************************************************)
(* JavaScript values as they arrive from JSON: every value is a record of  *)
(* the same shape, discriminated by t.                                     *)
(***************************************************************************)
Blank == [t |-> "null", b |-> FALSE, n |-> 0, s |-> <<>>, keys |-> <<>>, kids |-> <<>>]
Null == Blank
Bool(x) == [Blank EXCEPT !.t = "boolean", !.b = x]
Num(x) == [Blank EXCEPT !.t = "number", !.n = x]
Str(x) == [Blank EXCEPT !.t = "string", !.s = x]
Arr(xs) == [Blank EXCEPT !.t = "array", !.kids = xs]
Obj(ks, xs) == [Blank EXCEPT !.t = "object", !.keys = ks, !.kids = xs]

(***************************************************************************)
(* JSON.stringify(value) and JSON.stringify(value, null, 2)                *)
(***************************************************************************)
Spaces(n) == [i \in 1..n |-> " "]

RECURSIVE Join(_, _)
Join(parts, sep) ==
  IF parts = <<>> THEN <<>>
  ELSE IF Len(parts) = 1 THEN parts[1]
  ELSE parts[1] \o sep \o Join(Tail(parts), sep)

RECURSIVE JsonEscape(_)
JsonEscape(s) ==
  IF s = <<>> THEN <<>>
  ELSE (CASE Head(s) = "\"" -> <<"\\", "\"">>
          [] Head(s) = "\\" -> <<"\\", "\\">>
          [] Head(s) = "\n" -> <<"\\", "n">>
          [] Head(s) = "\t" -> <<"\\", "t">>
          [] OTHER -> <<Head(s)>>) \o JsonEscape(Tail(s))

JsonQuote(s) == <<"\"">> \o JsonEscape(s) \o <<"\"">>

\* gap = 0 is JSON.stringify(v); gap = 2 is JSON.stringify(v, null, 2)
RECURSIVE JsonStringify(_, _, _)
JsonStringify(v, gap, depth) ==
  LET inner == Spaces(gap * (depth + 1))
      outer == Spaces(gap * depth)
      nl == IF gap = 0 THEN <<>> ELSE <<"\n">>
      colon == IF gap = 0 THEN <<":">> ELSE <<":", " ">>
      sep == <<",">> \o nl \o inner
  IN CASE v.t = "null" -> <<"n", "u", "l", "l">>
       [] v.t = "boolean" -> IF v.b THEN <<"t", "r", "u", "e">> ELSE <<"f", "a", "l", "s", "e">>
       [] v.t = "number" -> IntToString(v.n)
       [] v.t = "string" -> JsonQuote(v.s)
       [] v.t = "array" ->
            IF v.kids = <<>> THEN <<"[", "]">>
            ELSE <<"[">> \o nl \o inner
                 \o Join([i \in 1..Len(v.kids) |-> JsonStringify(v.kids[i], gap, depth + 1)], sep)
                 \o nl \o outer \o <<"]">>
       [] v.t = "object" ->
            IF v.kids = <<>> THEN <<"{", "}">>
            ELSE <<"{">> \o nl \o inner
                 \o Join([i \in 1..Len(v.kids) |->
                            JsonQuote(v.keys[i]) \o colon \o JsonStringify(v.kids[i], gap, depth + 1)], sep)
                 \o nl \o outer \o <<"}">>

(***************************************************************************)
(* JSON.parse(text): recursive descent over the characters.  A result is   *)
(* [ok, v, i]: whether a value was read, the value, and the next index.    *)
(* Fractions and exponents are outside the modelled number grammar.        *)
(***************************************************************************)
ParseFail == [ok |-> FALSE, v |-> Null, i |-> 0]
ParseOk(v, i) == [ok |-> TRUE, v |-> v, i |-> i]

RECURSIVE SkipWs(_, _)
SkipWs(s, i) ==
  IF i <= Len(s) /\ s[i] \in WhiteSpace THEN SkipWs(s, i + 1) ELSE i

Literal(s, i, word, v) ==
  IF i + Len(word) - 1 <= Len(s) /\ SubSeq(s, i, i + Len(word) - 1) = word
  THEN ParseOk(v, i + Len(word)) ELSE ParseFail

RECURSIVE DigitRun(_, _)
DigitRun(s, i) ==
  IF i <= Len(s) /\ s[i] \in Digits THEN DigitRun(s, i + 1) ELSE i

ParseNumber(s, i) ==
  LET neg == s[i] = "-"
      from == IF neg THEN i + 1 ELSE i
      to == DigitRun(s, from)
      run == SubSeq(s, from, to - 1)
  IN IF run = <<>> \/ (Len(run) > 1 /\ run[1] = "0") THEN ParseFail
     ELSE ParseOk(Num(IF neg THEN -DigitsToNat(run) ELSE DigitsToNat(run)), to)

\* reads the characters after an opening quote up to the closing quote
RECURSIVE ParseStringBody(_, _, _)
ParseStringBody(s, i, acc) ==
  IF i > Len(s) THEN ParseFail
  ELSE IF s[i] = "\"" THEN ParseOk(Str(acc), i + 1)
  ELSE IF s[i] \in {"\n", "\t"} THEN ParseFail
  ELSE IF s[i] = "\\" THEN
         IF i + 1 > Len(s) THEN ParseFail
         ELSE CASE s[i + 1] = "\"" -> ParseStringBody(s, i + 2, Append(acc, "\""))
                [] s[i + 1] = "\\" -> ParseStringBody(s, i + 2, Append(acc, "\\"))
                [] s[i + 1] = "/" -> ParseStringBody(s, i + 2, Append(acc, "/"))
                [] s[i + 1] = "n" -> ParseStringBody(s, i + 2, Append(acc, "\n"))
                [] s[i + 1] = "t" -> ParseStringBody(s, i + 2, Append(acc, "\t"))
                [] OTHER -> ParseFail
  ELSE ParseStringBody(s, i + 1, Append(acc, s[i]))

\* obj[key] = value on an object under construction (a repeated key keeps its place)
SetKey(o, k, v) ==
  IF \E j \in 1..Len(o.keys) : o.keys[j] = k
  THEN LET j == CHOOSE j \in 1..Len(o.keys) : o.keys[j] = k
       IN [o EXCEPT !.kids[j] = v]
  ELSE [o EXCEPT !.keys = Append(@, k), !.kids = Append(@, v)]

RECURSIVE ParseValue(_, _)
RECURSIVE ParseArrayItems(_, _, _)
RECURSIVE ParseObjectItems(_, _, _)

ParseValue(s, i) ==
  IF i > Len(s) THEN ParseFail
  ELSE CASE s[i] = "{" ->
              LET j == SkipWs(s, i + 1)
              IN IF j <= Len(s) /\ s[j] = "}" THEN ParseOk(Obj(<<>>, <<>>), j + 1)
                 ELSE ParseObjectItems(s, j, Obj(<<>>, <<>>))
         [] s[i] = "[" ->
              LET j == SkipWs(s, i + 1)
              IN IF j <= Len(s) /\ s[j] = "]" THEN ParseOk(Arr(<<>>), j + 1)
                 ELSE ParseArrayItems(s, j, <<>>)
         [] s[i] = "\"" -> ParseStringBody(s, i + 1, <<>>)
         [] s[i] = "-" \/ s[i] \in Digits -> ParseNumber(s, i)
         [] s[i] = "t" -> Literal(s, i, <<"t", "r", "u", "e">>, Bool(TRUE))
         [] s[i] = "f" -> Literal(s, i, <<"f", "a", "l", "s", "e">>, Bool(FALSE))
         [] s[i] = "n" -> Literal(s, i, <<"n", "u", "l", "l">>, Null)
         [] OTHER -> ParseFail

ParseArrayItems(s, i, acc) ==
  LET item == ParseValue(s, i)
  IN IF ~item.ok THEN ParseFail
     ELSE LET j == SkipWs(s, item.i)
          IN IF j > Len(s) THEN ParseFail
             ELSE IF s[j] = "]" THEN ParseOk(Arr(Append(acc, item.v)), j + 1)
             ELSE IF s[j] = "," THEN ParseArrayItems(s, SkipWs(s, j + 1), Append(acc, item.v))
             ELSE ParseFail

ParseObjectItems(s, i, acc) ==
  IF i > Len(s) \/ s[i] # "\"" THEN ParseFail
  ELSE LET key == ParseStringBody(s, i + 1, <<>>)
       IN IF ~key.ok THEN ParseFail
          ELSE LET c == SkipWs(s, key.i)
               IN IF c > Len(s) \/ s[c] # ":" THEN ParseFail
                  ELSE LET item == ParseValue(s, SkipWs(s, c + 1))
                       IN IF ~item.ok THEN ParseFail
                          ELSE LET j == SkipWs(s, item.i)
                                   next == SetKey(acc, key.v.s, item.v)
                               IN IF j > Len(s) THEN ParseFail
                                  ELSE IF s[j] = "}" THEN ParseOk(next, j + 1)
                                  ELSE IF s[j] = "," THEN ParseObjectItems(s, SkipWs(s, j + 1), next)
                                  ELSE ParseFail

\* JSON.parse(text); ok = FALSE stands for the SyntaxError it throws
JsonParse(text) ==
  LET r == ParseValue(text, SkipWs(text, 1))
  IN IF r.ok /\ SkipWs(text, r.i) = Len(text) + 1 THEN r ELSE ParseFail


(***************************************************************************)
(* Date: timestamps are whole minutes since 1970-01-01T00:00Z (the code    *)
(* never renders seconds or milliseconds).  TimezoneOffset is the number   *)
(* of minutes local time is ahead of UTC in the browser.                   *)
(***************************************************************************)
TimezoneOffset == -300

DaysFromCivil(y, m, d) ==
  LET yy == IF m <= 2 THEN y - 1 ELSE y
      era == yy \div 400
      yoe == yy - era * 400
      mp == IF m > 2 THEN m - 3 ELSE m + 9
      doy == (153 * mp + 2) \div 5 + d - 1
      doe == yoe * 365 + yoe \div 4 - yoe \div 100 + doy
  IN era * 146097 + doe - 719468

CivilFromDays(days) ==
  LET z == days + 719468
      era == z \div 146097
      doe == z - era * 146097
      yoe == (doe - doe \div 1460 + doe \div 36524 - doe \div 146096) \div 365
      doy == doe - (365 * yoe + yoe \div 4 - yoe \div 100)
      mp == (5 * doy + 2) \div 153
      d == doy - (153 * mp + 2) \div 5 + 1
      m == IF mp < 10 THEN mp + 3 ELSE mp - 9
  IN [y |-> yoe + era * 400 + (IF m <= 2 THEN 1 ELSE 0), m |-> m, d |-> d]

\* /^\d{4}-\d{2}-\d{2}$/
MatchesDateOnly(s) ==
  /\ Len(s) = 10
  /\ AllDigits(SubSeq(s, 1, 4)) /\ s[5] = "-"
  /\ AllDigits(SubSeq(s, 6, 7)) /\ s[8] = "-"
  /\ AllDigits(SubSeq(s, 9, 10))

\* /^\d{4}-\d{2}-\d{2}T\d{2}:\d{2}$/
MatchesDateTimeLocal(s) ==
  /\ Len(s) = 16
  /\ MatchesDateOnly(SubSeq(s, 1, 10)) /\ s[11] = "T"
  /\ AllDigits(SubSeq(s, 12, 13)) /\ s[14] = ":"
  /\ AllDigits(SubSeq(s, 15, 16))

\* Date.parse on the ISO forms YYYY-MM-DD, YYYY-MM-DDTHH:mm, ...:ss, ...:ssZ and
\* ...:ss.sssZ; every other string is NaN.  A date-only form is UTC, a form
\* without Z is local time.  The result is [nan, ts].
DateParse(s) ==
  LET bad == [nan |-> TRUE, ts |-> 0]
      hasTime == Len(s) >= 16
      okShape ==
        \/ MatchesDateOnly(s)
        \/ MatchesDateTimeLocal(s)
        \/ (Len(s) \in {19, 20, 24} /\ MatchesDateTimeLocal(SubSeq(s, 1, 16))
            /\ s[17] = ":" /\ AllDigits(SubSeq(s, 18, 19))
            /\ (Len(s) = 20 => s[20] = "Z")
            /\ (Len(s) = 24 => s[20] = "." /\ AllDigits(SubSeq(s, 21, 23)) /\ s[24] = "Z"))
  IN IF ~okShape THEN bad
     ELSE LET y == DigitsToNat(SubSeq(s, 1, 4))
              m == DigitsToNat(SubSeq(s, 6, 7))
              d == DigitsToNat(SubSeq(s, 9, 10))
              hh == IF hasTime THEN DigitsToNat(SubSeq(s, 12, 13)) ELSE 0
              mi == IF hasTime THEN DigitsToNat(SubSeq(s, 15, 16)) ELSE 0
              ss == IF Len(s) >= 19 THEN DigitsToNat(SubSeq(s, 18, 19)) ELSE 0
              utc == Len(s) \in {10, 20, 24}
              wall == DaysFromCivil(y, m, d) * 1440 + hh * 60 + mi
          IN IF m < 1 \/ m > 12 \/ d < 1 \/ d > 31 \/ hh > 23 \/ mi > 59 \/ ss > 59 THEN bad
             ELSE [nan |-> FALSE, ts |-> IF utc THEN wall ELSE wall - TimezoneOffset]

\* new Date(text).toISOString(); <<>> stands for the RangeError of an invalid date
ToISOString(text) ==
  LET p == DateParse(text)
      c == CivilFromDays(p.ts \div 1440)
      year == IF c.y < 10 THEN <<"0", "0", "0">> \o NatToDigits(c.y)
              ELSE IF c.y < 100 THEN <<"0", "0">> \o NatToDigits(c.y)
              ELSE IF c.y < 1000 THEN <<"0">> \o NatToDigits(c.y)
              ELSE NatToDigits(c.y)
  IN IF p.nan THEN <<>>
     ELSE year \o <<"-">> \o pad(c.m) \o <<"-">> \o pad(c.d) \o <<"T">>
          \o pad((p.ts % 1440) \div 60) \o <<":">> \o pad(p.ts % 60)
          \o <<":", "0", "0", ".", "0", "0", "0", "Z">>


(***************************************************************************)
(* EntryDetailComponent: static tables                                     *)
(***************************************************************************)
readOnlyKeys ==
  {<<"i", "d">>, <<"_", "i", "d">>, <<"t", "y", "p", "e">>, <<"c", "r", "e", "a", "t", "e", "d", "a", "t">>, <<"u", "p", "d", "a", "t", "e", "d", "a", "t">>, <<"c", "r", "e", "a", "t", "e", "d", "_", "a", "t">>, <<"u", "p", "d", "a", "t", "e", "d", "_", "a", "t">>,
   <<"t", "i", "m", "e", "s", "t", "a", "m", "p">>, <<"o", "c", "c", "u", "r", "r", "e", "d", "a", "t">>, <<"o", "c", "c", "u", "r", "r", "e", "d", "_", "a", "t">>}

dateFieldHints ==
  {<<<<"d", "a", "t", "e", "_", "o", "f", "_", "b", "i", "r", "t", "h">>, "date">>, <<<<"d", "o", "b">>, "date">>, <<<<"b", "i", "r", "t", "h", "d", "a", "t", "e">>, "date">>,
   <<<<"l", "a", "s", "t", "_", "s", "e", "e", "n", "_", "a", "t">>, "datetime">>, <<<<"l", "a", "s", "t", "_", "s", "e", "e", "n">>, "datetime">>,
   <<<<"l", "a", "s", "t", "_", "s", "e", "r", "v", "i", "c", "e", "_", "a", "t">>, "datetime">>, <<<<"o", "c", "c", "u", "r", "r", "e", "d", "_", "a", "t">>, "datetime">>,
   <<<<"o", "c", "c", "u", "r", "r", "e", "d", "a", "t">>, "datetime">>, <<<<"c", "r", "e", "a", "t", "e", "d", "_", "a", "t">>, "datetime">>,
   <<<<"c", "r", "e", "a", "t", "e", "d", "a", "t">>, "datetime">>, <<<<"u", "p", "d", "a", "t", "e", "d", "_", "a", "t">>, "datetime">>,
   <<<<"u", "p", "d", "a", "t", "e", "d", "a", "t">>, "datetime">>, <<<<"t", "i", "m", "e", "s", "t", "a", "m", "p">>, "datetime">>}

selectFieldKeys == {<<"g", "e", "n", "d", "e", "r">>, <<"s", "t", "a", "t", "u", "s">>, <<"r", "i", "s", "k", "_", "l", "e", "v", "e", "l">>, <<"e", "n", "e", "r", "g", "y", "_", "t", "y", "p", "e">>, <<"v", "e", "h", "i", "c", "l", "e", "_", "t", "y", "p", "e">>}

DEFAULT_VISIBILITY_LEVEL == "user"

coerceVisibilityLevel(value) ==
  IF value.t = "string" /\ value.s \in {<<"a", "d", "m", "i", "n">>, <<"u", "s", "e", "r">>}
  THEN (IF value.s = <<"a", "d", "m", "i", "n">> THEN "admin" ELSE "user")
  ELSE DEFAULT_VISIBILITY_LEVEL

(***************************************************************************)
(* Field Type Classifier                                                   *)
(***************************************************************************)
isReadOnlyKeyListedOnly(key) ==
  LET normalized == toLowerCase(key)
  IN IF normalized = <<"e", "x", "t", "e", "r", "n", "a", "l", "_", "i", "d">> THEN FALSE
     ELSE normalized \in readOnlyKeys

isReadOnlyKey(key) ==
  LET normalized == toLowerCase(key)
  IN IF normalized = <<"e", "x", "t", "e", "r", "n", "a", "l", "_", "i", "d">> THEN FALSE
     ELSE IF normalized \in readOnlyKeys THEN TRUE
     ELSE IF endsWith(normalized, <<"i", "d">>) /\ normalized # <<"m", "e", "t", "a", "d", "a", "t", "a">> THEN TRUE
     ELSE FALSE

isVisibilityKey(key) == key = <<"v", "i", "s", "i", "b", "i", "l", "i", "t", "y", "_", "l", "e", "v", "e", "l">>

shouldHideFieldCaseSensitive(key) ==
  LET normalized == key
  IN IF normalized = <<"i", "d">> \/ normalized = <<"_", "i", "d">> THEN TRUE
     ELSE IF normalized = <<"m", "e", "t", "a", "d", "a", "t", "a">> \/ normalized = <<"t", "a", "g", "s">> THEN TRUE
     ELSE IF normalized = <<"c", "r", "e", "a", "t", "e", "d", "_", "a", "t">> \/ normalized = <<"u", "p", "d", "a", "t", "e", "d", "_", "a", "t">> THEN TRUE
     ELSE isVisibilityKey(normalized)

shouldHideField(key) ==
  LET normalized == toLowerCase(key)
  IN IF normalized = <<"i", "d">> \/ normalized = <<"_", "i", "d">> THEN TRUE
     ELSE IF normalized = <<"m", "e", "t", "a", "d", "a", "t", "a">> \/ normalized = <<"t", "a", "g", "s">> THEN TRUE
     ELSE IF normalized = <<"c", "r", "e", "a", "t", "e", "d", "_", "a", "t">> \/ normalized = <<"u", "p", "d", "a", "t", "e", "d", "_", "a", "t">> THEN TRUE
     ELSE isVisibilityKey(normalized)

looksLikeJson(value) ==
  IF value = <<>> THEN FALSE
  ELSE LET trimmed == trim(value)
       IN IF Len(trimmed) < 2 THEN FALSE
          ELSE LET first == trimmed[1]
                   last == trimmed[Len(trimmed)]
               IN \/ (first = "{" /\ last = "}")
                  \/ (first = "[" /\ last = "]")
                  \/ (first = "\"" /\ last = "\"")

stringifyValue(value) ==
  CASE value.t = "null" -> <<>>
    [] value.t = "string" -> value.s
    [] value.t = "number" -> IntToString(value.n)
    [] value.t = "boolean" -> IF value.b THEN <<"t", "r", "u", "e">> ELSE <<"f", "a", "l", "s", "e">>
    [] OTHER -> JsonStringify(value, 2, 0)

shouldUseTextarea(value) == includes(value, <<"\n">>) \/ Len(value) > 80

isSelectFieldKey(key) == toLowerCase(key) \in selectFieldKeys

shouldForceTextInputAddressOnly(normalizedKey) == includes(normalizedKey, <<"a", "d", "d", "r", "e", "s", "s">>)

shouldForceTextInput(normalizedKey) ==
  \/ includes(normalizedKey, <<"a", "d", "d", "r", "e", "s", "s">>)
  \/ includes(normalizedKey, <<"s", "t", "r", "e", "e", "t">>)
  \/ includes(normalizedKey, <<"p", "o", "s", "t", "a", "l">>)
  \/ includes(normalizedKey, <<"z", "i", "p", "c", "o", "d", "e">>)
  \/ includes(normalizedKey, <<"z", "i", "p", "_", "c", "o", "d", "e">>)
  \/ includes(normalizedKey, <<"z", "i", "p">>)

isBooleanKeyPrefixOnly(key) ==
  LET normalized == toLowerCase(key)
  IN startsWith(normalized, <<"i", "s", "_">>) \/ startsWith(normalized, <<"h", "a", "s", "_">>)

isBooleanKey(key) ==
  LET normalized == toLowerCase(key)
  IN IF startsWith(normalized, <<"i", "s", "_">>) \/ startsWith(normalized, <<"h", "a", "s", "_">>) THEN TRUE
     ELSE IF \E suffix \in {<<"_", "f", "l", "a", "g">>, <<"_", "e", "n", "a", "b", "l", "e", "d">>, <<"_", "d", "i", "s", "a", "b", "l", "e", "d">>, <<"_", "a", "l", "l", "o", "w", "e", "d">>} :
               endsWith(normalized, suffix) THEN TRUE
     ELSE IF normalized \in {<<"p", "i", "n", "n", "e", "d">>, <<"v", "e", "r", "i", "f", "i", "e", "d">>, <<"b", "l", "o", "c", "k", "e", "d">>, <<"a", "c", "t", "i", "v", "e">>} THEN TRUE
     ELSE FALSE

BooleanTokens == {<<"t", "r", "u", "e">>, <<"f", "a", "l", "s", "e">>, <<"1">>, <<"0">>, <<"y", "e", "s">>, <<"n", "o">>, <<"o", "n">>, <<"o", "f", "f">>}

isBooleanValue(key, value) ==
  IF value.t = "boolean" THEN TRUE
  ELSE IF value.t = "string" THEN toLowerCase(trim(value.s)) \in BooleanTokens
  ELSE IF value.t = "number" /\ (value.n = 0 \/ value.n = 1) THEN isBooleanKey(key)
  ELSE FALSE

\* "none" stands for null
dateVariantFromKey(key) ==
  IF \E h \in dateFieldHints : h[1] = key
  THEN (CHOOSE h \in dateFieldHints : h[1] = key)[2]
  ELSE IF endsWith(key, <<"_", "d", "a", "t", "e">>) \/ includes(key, <<"d", "a", "t", "e", "_", "o", "f">>) \/ endsWith(key, <<"d", "o", "b">>) THEN "date"
  ELSE IF \/ endsWith(key, <<"_", "a", "t">>) \/ endsWith(key, <<"_", "t", "i", "m", "e", "s", "t", "a", "m", "p">>) \/ endsWith(key, <<"t", "i", "m", "e", "s", "t", "a", "m", "p">>)
          \/ endsWith(key, <<"_", "t", "i", "m", "e">>) \/ includes(key, <<"l", "a", "s", "t", "_", "s", "e", "e", "n">>) \/ includes(key, <<"o", "c", "c", "u", "r", "r", "e", "d">>)
       THEN "datetime"
  ELSE "none"

\* a value decoded from JSON is never a Date instance, so only the key decides
detectDateVariant(key, value) == dateVariantFromKey(toLowerCase(key))

detectFieldType(key, value) ==
  LET normalizedKey == toLowerCase(key)
      stringValue == stringifyValue(value)
      dateVariant == detectDateVariant(key, value)
  IN IF isSelectFieldKey(normalizedKey) THEN "select"
     ELSE IF normalizedKey = <<"e", "x", "t", "e", "r", "n", "a", "l", "_", "i", "d">> THEN "text"
     ELSE IF shouldForceTextInput(normalizedKey)
          THEN (IF shouldUseTextarea(stringValue) THEN "textarea" ELSE "text")
     ELSE IF isBooleanValue(key, value) THEN "boolean"
     ELSE IF value.t = "number" THEN "number"
     ELSE IF dateVariant # "none" THEN dateVariant
     ELSE IF looksLikeJson(stringValue) THEN "json"
     ELSE IF shouldUseTextarea(stringValue) THEN "textarea" ELSE "text"


(***************************************************************************)
(* Value Codec                                                             *)
(***************************************************************************)
\* Number(text) for integer literals: [nan, n].  '' and blank text are 0.
NumberOfString(text) ==
  LET t == trim(text)
      signed == t # <<>> /\ t[1] \in {"-", "+"}
      run == IF signed THEN Tail(t) ELSE t
  IN IF t = <<>> THEN [nan |-> FALSE, n |-> 0]
     ELSE IF run = <<>> \/ ~AllDigits(run) THEN [nan |-> TRUE, n |-> 0]
     ELSE [nan |-> FALSE, n |-> IF t[1] = "-" THEN -DigitsToNat(run) ELSE DigitsToNat(run)]

\* Number(value)
NumberOf(value) ==
  CASE value.t = "null" -> [nan |-> FALSE, n |-> 0]
    [] value.t = "boolean" -> [nan |-> FALSE, n |-> IF value.b THEN 1 ELSE 0]
    [] value.t = "number" -> [nan |-> FALSE, n |-> value.n]
    [] value.t = "string" -> NumberOfString(value.s)
    [] OTHER -> [nan |-> TRUE, n |-> 0]

\* Boolean(value), the truthiness that !value negates
Truthy(value) ==
  CASE value.t = "null" -> FALSE
    [] value.t = "boolean" -> value.b
    [] value.t = "number" -> value.n # 0
    [] value.t = "string" -> value.s # <<>>
    [] OTHER -> TRUE

\* String(value ?? '')
StringOrEmpty(value) ==
  IF value.t = "null" THEN <<>> ELSE stringifyValue(value)

toBoolean(value) ==
  IF value.t = "boolean" THEN value
  ELSE IF value.t = "number"
       THEN (IF value.n = 1 THEN Bool(TRUE) ELSE IF value.n = 0 THEN Bool(FALSE) ELSE Null)
  ELSE IF value.t = "string"
       THEN LET normalized == toLowerCase(trim(value.s))
            IN IF normalized \in {<<"t", "r", "u", "e">>, <<"1">>, <<"y", "e", "s">>, <<"o", "n">>} THEN Bool(TRUE)
               ELSE IF normalized \in {<<"f", "a", "l", "s", "e">>, <<"0">>, <<"n", "o">>, <<"o", "f", "f">>} THEN Bool(FALSE)
               ELSE Null
  ELSE Null

toNumber(value) ==
  IF value.t = "number" THEN value
  ELSE IF value.t = "string" /\ Len(trim(value.s)) > 0
       THEN LET parsed == NumberOfString(value.s)
            IN IF parsed.nan THEN Null ELSE Num(parsed.n)
  ELSE Null

formatDateFromTimestamp(timestamp, variant) ==
  LET local == timestamp + TimezoneOffset
      date == CivilFromDays(local \div 1440)
      datePart == IntToString(date.y) \o <<"-">> \o pad(date.m) \o <<"-">> \o pad(date.d)
  IN IF variant = "date" THEN datePart
     ELSE datePart \o <<"T">> \o pad((local % 1440) \div 60) \o <<":">> \o pad(local % 60)

formatDateForInputAlwaysParses(value, variant) ==
  IF ~Truthy(value) THEN <<>>
  ELSE IF value.t = "string"
       THEN LET parsed == DateParse(trim(value.s))
            IN IF ~parsed.nan THEN formatDateFromTimestamp(parsed.ts, variant) ELSE <<>>
  ELSE IF value.t = "number"
       THEN formatDateFromTimestamp(value.n \div 60000, variant)
  ELSE <<>>

formatDateForInput(value, variant) ==
  IF ~Truthy(value) THEN <<>>
  ELSE IF value.t = "string"
       THEN LET trimmed == trim(value.s)
                parsed == DateParse(trimmed)
            IN IF variant = "date" /\ MatchesDateOnly(trimmed) THEN trimmed
               ELSE IF variant = "datetime" /\ MatchesDateTimeLocal(trimmed) THEN trimmed
               ELSE IF ~parsed.nan THEN formatDateFromTimestamp(parsed.ts, variant)
               ELSE <<>>
  ELSE IF value.t = "number"
       THEN formatDateFromTimestamp(value.n \div 60000, variant)
  ELSE <<>>

prepareControlValue(value, inputType) ==
  CASE inputType = "boolean" -> (IF toBoolean(value).t = "null" THEN Bool(FALSE) ELSE toBoolean(value))
    [] inputType = "number" -> Str(stringifyValue(toNumber(value)))
    [] inputType = "date" -> Str(formatDateForInput(value, "date"))
    [] inputType = "datetime" -> Str(formatDateForInput(value, "datetime"))
    [] OTHER -> Str(stringifyValue(value))

\* text || null
OrNull(text) == IF text = <<>> THEN Null ELSE Str(text)

normalizeValueForComparison(value, config) ==
  CASE config.inputType = "boolean" -> toBoolean(value)
    [] config.inputType = "number" -> Str(stringifyValue(toNumber(value)))
    [] config.inputType = "date" -> OrNull(formatDateForInput(value, "date"))
    [] config.inputType = "datetime" -> OrNull(formatDateForInput(value, "datetime"))
    [] config.inputType = "json" -> Str(trim(stringifyValue(value)))
    [] OTHER -> Str(trim(stringifyValue(value)))

normalizeJsonString(value) ==
  IF value = <<>> THEN <<>>
  ELSE \* try { JSON.stringify(JSON.parse(value)) } catch { value.trim() }
       CHOOSE text \in {IF parsed.ok THEN JsonStringify(parsed.v, 0, 0) ELSE trim(value) :
                          parsed \in {JsonParse(value)}} : TRUE

valuesEqual(current, original, config) ==
  IF current = original THEN TRUE
  ELSE IF config.inputType = "json"
       THEN normalizeJsonString(StringOrEmpty(current)) = normalizeJsonString(StringOrEmpty(original))
  ELSE IF current.t = "boolean" \/ original.t = "boolean"
       THEN Truthy(current) = Truthy(original)
  ELSE IF current.t = "number" \/ original.t = "number"
       THEN ~NumberOf(current).nan /\ NumberOf(current) = NumberOf(original)
  ELSE StringOrEmpty(current) = StringOrEmpty(original)

parseJsonValueSendsText(value, fallback) ==
  LET text == trim(stringifyValue(value))
  IN IF text = <<>> THEN Str(<<>>)
     ELSE CHOOSE out \in {IF parsed.ok THEN parsed.v ELSE Str(text) :
                           parsed \in {JsonParse(text)}} : TRUE

\* JSON.parse(text) with the catch branch: fallback ?? text
parseJsonValue(value, fallback) ==
  LET text == trim(stringifyValue(value))
  IN IF text = <<>> THEN Str(<<>>)
     ELSE CHOOSE out \in {IF parsed.ok THEN parsed.v
                           ELSE IF fallback.t # "null" THEN fallback ELSE Str(text) :
                           parsed \in {JsonParse(text)}} : TRUE

\* the value an exception stands for: toISOString() of an invalid Date throws RangeError
Thrown == [Blank EXCEPT !.t = "thrown"]

prepareValueForPayload(value, config, originalValue) ==
  CASE config.inputType = "boolean" -> toBoolean(value)
    [] config.inputType = "number" ->
         (IF toNumber(value).t = "null"
          THEN (IF value.t = "string" THEN Str(trim(value.s)) ELSE Str(<<>>))
          ELSE toNumber(value))
    [] config.inputType = "date" -> Str(formatDateForInput(value, "date"))
    [] config.inputType = "datetime" ->
         (LET formatted == formatDateForInput(value, "datetime")
          IN IF formatted = <<>> THEN Str(<<>>)
             ELSE IF DateParse(formatted).nan THEN Thrown
             ELSE Str(ToISOString(formatted)))
    [] config.inputType = "json" -> parseJsonValue(value, originalValue)
    [] OTHER -> IF value.t = "string" THEN Str(trim(value.s)) ELSE Str(trim(stringifyValue(value)))


(***************************************************************************)
(* Bounds and input domains                                                *)
(***************************************************************************)
MaxPending == 2

\* what AuthService answers for the signed-in user
AuthProfiles ==
  {[canEdit |-> FALSE, canDelete |-> FALSE, canManageVisibility |-> FALSE, canViewAdmin |-> FALSE],
   [canEdit |-> TRUE, canDelete |-> FALSE, canManageVisibility |-> FALSE, canViewAdmin |-> FALSE],
   [canEdit |-> TRUE, canDelete |-> TRUE, canManageVisibility |-> TRUE, canViewAdmin |-> TRUE]}

Field(k, v) == [k |-> k, v |-> v]

\* keys and values a backend record is made of
RecordKeys ==
  {<<"i", "d">>, <<"n", "a", "m", "e">>, <<"s", "t", "a", "t", "u", "s">>, <<"e", "x", "t", "e", "r", "n", "a", "l", "_", "i", "d">>, <<"O", "w", "n", "e", "r", "_", "I", "d">>, <<"i", "s", "_", "a", "c", "t", "i", "v", "e">>, <<"c", "o", "u", "n", "t">>,
   <<"d", "o", "b">>, <<"l", "a", "s", "t", "_", "s", "e", "e", "n", "_", "a", "t">>, <<"a", "d", "d", "r", "e", "s", "s">>, <<"d", "a", "t", "a">>, <<"m", "e", "t", "a", "d", "a", "t", "a">>, <<"v", "i", "s", "i", "b", "i", "l", "i", "t", "y", "_", "l", "e", "v", "e", "l">>,
   <<"z", "i", "p">>, <<"S", "t", "r", "e", "e", "t", "_", "F", "l", "a", "g">>, <<"p", "o", "s", "t", "a", "l", "_", "d", "a", "t", "e">>, <<"h", "a", "s", "_", "c", "a", "r">>, <<"p", "i", "n", "n", "e", "d">>, <<"s", "m", "s", "_", "a", "l", "l", "o", "w", "e", "d">>}

RecordValues ==
  {Null, Bool(TRUE), Bool(FALSE), Num(0), Num(1), Num(5), Num(-3),
   Str(<<>>), Str(<<" ", " ">>), Str(<<" ", "B", "o", "b">>), Str(<<"a", "c", "t", "i", "v", "e">>), Str(<<"y", "e", "s">>), Str(<<" ", "T", "R", "U", "E", " ">>),
   Str(<<"0">>), Str(<<"1", "2">>), Str(<<"t", "w", "o", "\n", "l", "i", "n", "e", "s">>), Str(<<" ", "{", "\"", "a", "\"", ":", " ", "[", "1", ",", " ", "n", "u", "l", "l", "]", "}", " ">>), Str(<<"\"", "q", "\"">>),
   Str(<<"[", "1", ",", "]">>), Str(<<"1", "9", "9", "0", "-", "0", "1", "-", "0", "2">>), Str(<<"2", "0", "2", "4", "-", "0", "3", "-", "0", "5", "T", "0", "1", ":", "3", "0", ":", "0", "0", "Z">>),
   Str(<<"2", "0", "2", "4", "-", "0", "3", "-", "0", "5", "T", "1", "0", ":", "3", "0">>), Str(<<"2", "0", "2", "4", "-", "1", "3", "-", "4", "5">>), Str(<<"a", "d", "m", "i", "n">>),
   Obj(<< <<"a">> >>, <<Arr(<<Num(1), Null>>)>>), Obj(<<>>, <<>>), Arr(<<>>),
   Arr(<<Str(<<"x">>), Obj(<< <<"k">> >>, <<Bool(TRUE)>>)>>)}

\* Date.parse is modelled on ISO forms and on text without digits; other text
\* under a date key is left out of the records
InDateGrammar(k, v) ==
  \/ v.t # "string"
  \/ dateVariantFromKey(toLowerCase(k)) = "none"
  \/ ~DateParse(trim(v.s)).nan
  \/ \A i \in 1..Len(v.s) : v.s[i] \notin Digits

\* the EntryRecord objects the form builder is applied to: every value under every
\* key, and records that mix editable, read-only and hidden keys
Records ==
  {<<Field(kv[1], kv[2])>> : kv \in {p \in RecordKeys \X RecordValues : InDateGrammar(p[1], p[2])}}
  \cup
  {<<Field(<<"i", "d">>, Num(1)), Field(<<"n", "a", "m", "e">>, Str(<<" ", "B", "o", "b">>)),
     Field(<<"s", "t", "a", "t", "u", "s">>, Str(<<"a", "c", "t", "i", "v", "e">>)), Field(<<"O", "w", "n", "e", "r", "_", "I", "d">>, Num(5)),
     Field(<<"v", "i", "s", "i", "b", "i", "l", "i", "t", "y", "_", "l", "e", "v", "e", "l">>, Str(<<"a", "d", "m", "i", "n">>))>>,
   <<Field(<<"e", "x", "t", "e", "r", "n", "a", "l", "_", "i", "d">>, Str(<<"X", "1">>)),
     Field(<<"l", "a", "s", "t", "_", "s", "e", "e", "n", "_", "a", "t">>, Str(<<"2", "0", "2", "4", "-", "0", "3", "-", "0", "5", "T", "0", "1", ":", "3", "0", ":", "0", "0", "Z">>)),
     Field(<<"p", "r", "o", "f", "i", "l", "e", "_", "i", "d">>, Str(<<"9">>))>>,
   <<Field(<<"d", "a", "t", "a">>, Obj(<< <<"a">> >>, <<Arr(<<Num(1), Null>>)>>)), Field(<<"c", "o", "u", "n", "t">>, Num(0)),
     Field(<<"m", "e", "t", "a", "d", "a", "t", "a">>, Obj(<<>>, <<>>))>>,
   <<Field(<<"I", "D">>, Num(2)), Field(<<"_", "i", "d">>, Str(<<"x", "2">>)), Field(<<"T", "a", "g", "s">>, Arr(<<>>)),
     Field(<<"c", "r", "e", "a", "t", "e", "d", "_", "a", "t">>, Str(<<"2", "0", "2", "4", "-", "0", "3", "-", "0", "5", "T", "0", "1", ":", "3", "0", ":", "0", "0", "Z">>)), Field(<<"n", "a", "m", "e">>, Str(<<"A", "l">>)),
     Field(<<"U", "p", "d", "a", "t", "e", "d", "_", "A", "t">>, Str(<<"2", "0", "2", "4", "-", "0", "3", "-", "0", "5", "T", "0", "1", ":", "3", "0", ":", "0", "0", "Z">>)),
     Field(<<"V", "i", "s", "i", "b", "i", "l", "i", "t", "y", "_", "L", "e", "v", "e", "l">>, Str(<<"u", "s", "e", "r">>)), Field(<<"s", "t", "a", "t", "u", "s">>, Str(<<"a", "c", "t", "i", "v", "e">>))>>}

\* the records the backend serves to the detail screen
ServerRecords ==
  {<<Field(<<"i", "d">>, Num(1)), Field(<<"s", "t", "a", "t", "u", "s">>, Str(<<"a", "c", "t", "i", "v", "e">>)), Field(<<"O", "w", "n", "e", "r", "_", "I", "d">>, Num(5)),
     Field(<<"v", "i", "s", "i", "b", "i", "l", "i", "t", "y", "_", "l", "e", "v", "e", "l">>, Str(<<"a", "d", "m", "i", "n">>))>>,
   <<Field(<<"e", "x", "t", "e", "r", "n", "a", "l", "_", "i", "d">>, Str(<<"X", "1">>)), Field(<<"d", "a", "t", "a">>, Obj(<< <<"a">> >>, <<Arr(<<Num(1), Null>>)>>))>>}

\* what a user may leave in the control of a field of the given input type
EditValuesFor(inputType) ==
  CASE inputType = "boolean" -> {Bool(TRUE), Bool(FALSE)}
    [] inputType = "number" -> {Str(<<>>), Str(<<" ", "0">>), Str(<<"7">>)}
    [] inputType = "date" -> {Str(<<>>), Str(<<"1", "9", "9", "0", "-", "0", "1", "-", "0", "3">>)}
    [] inputType = "datetime" ->
         {Str(<<>>), Str(<<"2", "0", "2", "4", "-", "0", "3", "-", "0", "5", "T", "0", "8", ":", "0", "0">>)}
    [] inputType = "json" -> {Str(<<"{", "\"", "a", "\"", ":", "[", "1", ",", "n", "u", "l", "l", "]", "}">>), Str(<<"{", "\"", "a", "\"", ":">>), Str(<<"[", "2", "]">>),
                              Str(<<" ">>)}
    [] OTHER -> {Str(<<>>), Str(<<"a", "c", "t", "i", "v", "e", " ">>), Str(<<"a", "r", "c", "h", "i", "v", "e", "d">>)}

VisibilityLevels == {"user", "admin"}

Routes == {[type |-> "persons", id |-> "1"], [type |-> "notes", id |-> "2"]}
NoRoute == [type |-> "", id |-> ""]


(***************************************************************************)
(* EntryDetailComponent state                                              *)
(***************************************************************************)
VARIABLES
  auth,                    \* answers of AuthService.canEditEntries() and friends
  route,                   \* currentType / currentId
  entry,                   \* entry signal: [loaded, rec]
  fields,                  \* fields signal and fieldConfigMap
  form,                    \* form.controls in insertion order: [key, value, disabled]
  formDirty,               \* form.dirty
  visibilityControl,       \* visibilityControl value
  visibilityDirty,         \* visibilityControl.dirty
  currentVisibilityLevel,
  isLoading,
  isSaving,
  errorMessage,
  successMessage,
  pending                  \* HTTP requests of this component awaiting their response

detailVars ==
  <<auth, route, entry, fields, form, formDirty, visibilityControl, visibilityDirty,
    currentVisibilityLevel, isLoading, isSaving, errorMessage, successMessage, pending>>

NoEntry == [loaded |-> FALSE, rec |-> <<>>]

canEditEntries == auth.canEdit
canDeleteEntries == auth.canDelete
canEditVisibility == auth.canManageVisibility

\* original[key]; a missing key reads as undefined, which the codec treats as null
Get(rec, key) ==
  IF \E i \in 1..Len(rec) : rec[i].k = key
  THEN rec[CHOOSE i \in 1..Len(rec) : rec[i].k = key].v
  ELSE Null

fieldConfigMapHas(key) == \E i \in 1..Len(fields) : fields[i].key = key
fieldConfigMapGet(key) == fields[CHOOSE i \in 1..Len(fields) : fields[i].key = key]

extractVisibility(rec) == coerceVisibilityLevel(Get(rec, <<"v", "i", "s", "i", "b", "i", "l", "i", "t", "y", "_", "l", "e", "v", "e", "l">>))

\* the descriptors rebuildForm pushes, in the record's key order
BuildFieldConfigs(record) ==
  LET visible == SelectSeq(record, LAMBDA e : ~shouldHideField(e.k))
  IN [i \in 1..Len(visible) |->
        LET inputType == detectFieldType(visible[i].k, visible[i].v)
        IN [key |-> visible[i].k,
            multiline |-> inputType \in {"textarea", "json"},
            readOnly |-> isReadOnlyKey(visible[i].k),
            inputType |-> inputType,
            dateVariant |-> IF inputType \in {"date", "datetime"} THEN inputType ELSE "none"]]

\* the controls rebuildForm creates; form.disable() when the user cannot edit
BuildControls(record, canEdit) ==
  LET visible == SelectSeq(record, LAMBDA e : ~shouldHideField(e.k))
  IN [i \in 1..Len(visible) |->
        [key |-> visible[i].k,
         value |-> prepareControlValue(visible[i].v, detectFieldType(visible[i].k, visible[i].v)),
         disabled |-> isReadOnlyKey(visible[i].k) \/ ~canEdit]]

rebuildForm(record) ==
  /\ form' = BuildControls(record, canEditEntries)
  /\ fields' = BuildFieldConfigs(record)
  /\ formDirty' = FALSE

updateVisibilityControlState(level) ==
  /\ currentVisibilityLevel' = level
  /\ visibilityControl' = level
  /\ visibilityDirty' = FALSE

\* does this control contribute a key to the change-set
ControlChanged(c) ==
  /\ ~c.disabled
  /\ fieldConfigMapHas(c.key)
  /\ \E config \in {fieldConfigMapGet(c.key)} :
       ~valuesEqual(normalizeValueForComparison(c.value, config),
                    normalizeValueForComparison(Get(entry.rec, c.key), config),
                    config)

buildPayloadSendsEveryField ==
  IF ~entry.loaded THEN <<>>
  ELSE LET changed == SelectSeq(form, LAMBDA c : ~c.disabled /\ fieldConfigMapHas(c.key))
       IN [i \in 1..Len(changed) |->
             Field(changed[i].key,
                   prepareValueForPayload(changed[i].value, fieldConfigMapGet(changed[i].key),
                                          Get(entry.rec, changed[i].key)))]

buildPayload ==
  IF ~entry.loaded THEN <<>>
  ELSE LET changed == SelectSeq(form, ControlChanged)
       IN [i \in 1..Len(changed) |->
             Field(changed[i].key,
                   prepareValueForPayload(changed[i].value, fieldConfigMapGet(changed[i].key),
                                          Get(entry.rec, changed[i].key)))]

appendVisibilityToPayload(payload) ==
  IF ~canEditVisibility THEN payload
  ELSE IF visibilityControl # currentVisibilityLevel
       THEN Append(payload, Field(<<"v", "i", "s", "i", "b", "i", "l", "i", "t", "y", "_", "l", "e", "v", "e", "l">>,
                                  Str(IF visibilityControl = "admin" THEN <<"a", "d", "m", "i", "n">> ELSE <<"u", "s", "e", "r">>)))
  ELSE payload

\* the change-set save() submits
SavePayload == appendVisibilityToPayload(buildPayload)

\* prepareValueForPayload threw inside buildPayload: save() rejects before touching state
PayloadThrows(payload) == \E i \in 1..Len(payload) : payload[i].v = Thrown

\* a request handed to the HTTP layer: method, target and the number of keys of its body
GetRequest(r) == [method |-> "GET", type |-> r.type, id |-> r.id, bodyKeys |-> 0]
PatchRequest(r, payload) ==
  [method |-> "PATCH", type |-> r.type, id |-> r.id, bodyKeys |-> Len(payload)]

RemoveAt(q, i) == SubSeq(q, 1, i - 1) \o SubSeq(q, i + 1, Len(q))


(***************************************************************************)
(* EntryDetailComponent operations                                         *)
(***************************************************************************)
DetailInit ==
  /\ auth \in AuthProfiles
  /\ route = NoRoute
  /\ entry = NoEntry
  /\ fields = <<>>
  /\ form = <<>>
  /\ formDirty = FALSE
  /\ visibilityControl = DEFAULT_VISIBILITY_LEVEL
  /\ visibilityDirty = FALSE
  /\ currentVisibilityLevel = DEFAULT_VISIBILITY_LEVEL
  /\ isLoading = FALSE
  /\ isSaving = FALSE
  /\ errorMessage = "none"
  /\ successMessage = "none"
  /\ pending = <<>>

\* loadEntry(force) up to its await, for the route r the component is on
loadEntry(force, r) ==
  IF isLoading /\ ~force
  THEN UNCHANGED <<isLoading, errorMessage, successMessage, pending>>
  ELSE /\ isLoading' = TRUE
       /\ errorMessage' = "none"
       /\ successMessage' = "none"
       /\ pending' = Append(pending, GetRequest(r))

\* the paramMap subscription of the constructor
RouteChange(r) ==
  /\ r # route
  /\ Len(pending) < MaxPending
  /\ route' = r
  /\ loadEntry(FALSE, r)
  /\ UNCHANGED <<auth, entry, fields, form, formDirty, visibilityControl, visibilityDirty,
                 currentVisibilityLevel, isSaving>>

refresh ==
  /\ route # NoRoute
  /\ Len(pending) < MaxPending
  /\ loadEntry(TRUE, route)
  /\ UNCHANGED <<auth, route, entry, fields, form, formDirty, visibilityControl,
                 visibilityDirty, currentVisibilityLevel, isSaving>>

\* loadEntry after its await: the GET was answered with a record
LoadSucceeds(i, record) ==
  /\ pending[i].method = "GET"
  /\ pending' = RemoveAt(pending, i)
  /\ entry' = [loaded |-> TRUE, rec |-> record]
  /\ rebuildForm(record)
  /\ updateVisibilityControlState(extractVisibility(record))
  /\ isLoading' = FALSE
  /\ UNCHANGED <<auth, route, isSaving, errorMessage, successMessage>>

\* loadEntry after its await: the GET failed with this status, or (status 200) its
\* body was not an object and ensureRecord threw
LoadFails(i, status) ==
  /\ pending[i].method = "GET"
  /\ pending' = RemoveAt(pending, i)
  /\ errorMessage' = IF ~auth.canViewAdmin /\ status \in {403, 404}
                     THEN "hiddenFromUser" ELSE "loadFailed"
  /\ isLoading' = FALSE
  /\ UNCHANGED <<auth, route, entry, fields, form, formDirty, visibilityControl,
                 visibilityDirty, currentVisibilityLevel, isSaving, successMessage>>

\* the user changes an enabled control
EditControl(i, v) ==
  /\ ~form[i].disabled
  /\ form' = [form EXCEPT ![i].value = v]
  /\ formDirty' = TRUE
  /\ UNCHANGED <<auth, route, entry, fields, visibilityControl, visibilityDirty,
                 currentVisibilityLevel, isLoading, isSaving, errorMessage, successMessage,
                 pending>>

\* the user picks a visibility level (the control is enabled only for canEditVisibility)
EditVisibility(level) ==
  /\ canEditVisibility
  /\ visibilityControl' = level
  /\ visibilityDirty' = TRUE
  /\ UNCHANGED <<auth, route, entry, fields, form, formDirty, currentVisibilityLevel,
                 isLoading, isSaving, errorMessage, successMessage, pending>>

hasChanges == (formDirty \/ visibilityDirty) /\ ~isSaving

saveAlwaysSubmits ==
  /\ canEditEntries
  /\ route # NoRoute
  /\ Len(pending) < MaxPending
  /\ \E payload \in {SavePayload} :
       /\ ~PayloadThrows(payload)
       /\ pending' = Append(pending, PatchRequest(route, payload))
  /\ errorMessage' = "none"
  /\ successMessage' = "none"
  /\ isSaving' = TRUE
  /\ UNCHANGED <<auth, route, entry, fields, form, formDirty, visibilityControl,
                 visibilityDirty, currentVisibilityLevel, isLoading>>

\* save() up to its await
save ==
  /\ canEditEntries
  /\ route # NoRoute
  /\ Len(pending) < MaxPending
  /\ \E payload \in {SavePayload} :
       /\ ~PayloadThrows(payload)
       /\ IF Len(payload) = 0
          THEN /\ successMessage' = "noChanges"
               /\ formDirty' = FALSE
               /\ visibilityDirty' = FALSE
               /\ UNCHANGED <<errorMessage, isSaving, pending>>
          ELSE /\ errorMessage' = "none"
               /\ successMessage' = "none"
               /\ isSaving' = TRUE
               /\ pending' = Append(pending, PatchRequest(route, payload))
               /\ UNCHANGED <<formDirty, visibilityDirty>>
  /\ UNCHANGED <<auth, route, entry, fields, form, visibilityControl, currentVisibilityLevel,
                 isLoading>>

SaveSucceedsWithoutRebuild(i, updated) ==
  /\ pending[i].method = "PATCH"
  /\ pending' = RemoveAt(pending, i)
  /\ entry' = [loaded |-> TRUE, rec |-> updated]
  /\ updateVisibilityControlState(extractVisibility(updated))
  /\ successMessage' = "saved"
  /\ isSaving' = FALSE
  /\ UNCHANGED <<auth, route, isLoading, errorMessage, form, fields, formDirty>>

\* save() after its await: the PATCH returned the updated record
SaveSucceeds(i, updated) ==
  /\ pending[i].method = "PATCH"
  /\ pending' = RemoveAt(pending, i)
  /\ entry' = [loaded |-> TRUE, rec |-> updated]
  /\ rebuildForm(updated)
  /\ updateVisibilityControlState(extractVisibility(updated))
  /\ successMessage' = "saved"
  /\ isSaving' = FALSE
  /\ UNCHANGED <<auth, route, isLoading, errorMessage>>

\* save() after its await: the PATCH succeeded without an object in its body
SaveSucceedsEmpty(i) ==
  /\ pending[i].method = "PATCH"
  /\ pending' = RemoveAt(pending, i)
  /\ successMessage' = "saved"
  /\ isSaving' = FALSE
  /\ UNCHANGED <<auth, route, entry, fields, form, formDirty, visibilityControl,
                 visibilityDirty, currentVisibilityLevel, isLoading, errorMessage>>

SaveFailsAndRetries(i) ==
  /\ pending[i].method = "PATCH"
  /\ pending' = Append(RemoveAt(pending, i), pending[i])
  /\ errorMessage' = "saveFailed"
  /\ UNCHANGED <<auth, route, entry, fields, form, formDirty, visibilityControl,
                 visibilityDirty, currentVisibilityLevel, isLoading, isSaving, successMessage>>

\* save() after its await: the PATCH failed
SaveFails(i) ==
  /\ pending[i].method = "PATCH"
  /\ pending' = RemoveAt(pending, i)
  /\ errorMessage' = "saveFailed"
  /\ isSaving' = FALSE
  /\ UNCHANGED <<auth, route, entry, fields, form, formDirty, visibilityControl,
                 visibilityDirty, currentVisibilityLevel, isLoading, successMessage>>

(***************************************************************************)
(* EntryDetailComponent: the delete dialog.  handleDeleteConfirmed awaits  *)
(* performDelete, which awaits the DELETE and then router.navigate, and    *)
(* closes the dialog afterwards.                                           *)
(***************************************************************************)
MaxDeletes == 3

VARIABLES
  isDeleting,
  isDeleteDialogOpen,
  deleteInFlight,          \* DELETE requests awaiting their response
  deleteNavigating,        \* performDelete calls awaiting router.navigate(['/'])
  deleteCalls,             \* calls of handleDeleteConfirmed so far
  navigatedHome            \* did router.navigate(['/']) succeed

deleteVars ==
  <<isDeleting, isDeleteDialogOpen, deleteInFlight, deleteNavigating, deleteCalls, navigatedHome>>

DeleteInit ==
  /\ isDeleting = FALSE
  /\ isDeleteDialogOpen = FALSE
  /\ deleteInFlight = 0
  /\ deleteNavigating = 0
  /\ deleteCalls = 0
  /\ navigatedHome = FALSE

\* what the delete handlers leave alone in the rest of the component
DeleteKeepsForm ==
  UNCHANGED <<auth, route, entry, fields, form, formDirty, visibilityControl, visibilityDirty,
              currentVisibilityLevel, isLoading, isSaving, pending>>

openDeleteDialog ==
  /\ canDeleteEntries
  /\ route # NoRoute
  /\ isDeleteDialogOpen' = TRUE
  /\ UNCHANGED <<isDeleting, deleteInFlight, deleteNavigating, deleteCalls, navigatedHome,
                 errorMessage, successMessage>>
  /\ DeleteKeepsForm

\* closeDeleteDialog() when isDeleting reads as given
closeDeleteDialog(deleting) ==
  IF deleting THEN UNCHANGED isDeleteDialogOpen ELSE isDeleteDialogOpen' = FALSE

\* the user dismisses the dialog
DismissDeleteDialog ==
  /\ isDeleteDialogOpen
  /\ closeDeleteDialog(isDeleting)
  /\ UNCHANGED <<isDeleting, deleteInFlight, deleteNavigating, deleteCalls, navigatedHome,
                 errorMessage, successMessage>>
  /\ DeleteKeepsForm

performDeleteUnguarded ==
  /\ errorMessage' = "none"
  /\ successMessage' = "none"
  /\ isDeleting' = TRUE
  /\ deleteInFlight' = deleteInFlight + 1
  /\ UNCHANGED isDeleteDialogOpen

\* performDelete() up to its await; when it returns at once, handleDeleteConfirmed
\* goes on to closeDeleteDialog()
performDelete ==
  IF ~canDeleteEntries \/ route = NoRoute \/ isDeleting
  THEN /\ closeDeleteDialog(isDeleting)
       /\ UNCHANGED <<isDeleting, deleteInFlight, errorMessage, successMessage>>
  ELSE /\ errorMessage' = "none"
       /\ successMessage' = "none"
       /\ isDeleting' = TRUE
       /\ deleteInFlight' = deleteInFlight + 1
       /\ UNCHANGED isDeleteDialogOpen

handleDeleteConfirmed ==
  /\ deleteCalls < MaxDeletes
  /\ deleteCalls' = deleteCalls + 1
  /\ performDelete
  /\ UNCHANGED <<deleteNavigating, navigatedHome>>
  /\ DeleteKeepsForm

\* performDelete after deleteEntry resolved: the message, then router.navigate
DeleteSucceeds ==
  /\ deleteInFlight > 0
  /\ deleteInFlight' = deleteInFlight - 1
  /\ successMessage' = "deleted"
  /\ deleteNavigating' = deleteNavigating + 1
  /\ UNCHANGED <<isDeleting, isDeleteDialogOpen, deleteCalls, navigatedHome, errorMessage>>
  /\ DeleteKeepsForm

\* router.navigate settled: resolved (ok), or rejected into the catch block; then
\* finally, and closeDeleteDialog() in handleDeleteConfirmed
NavigationEnds(ok) ==
  /\ deleteNavigating > 0
  /\ deleteNavigating' = deleteNavigating - 1
  /\ navigatedHome' = ok
  /\ errorMessage' = IF ok THEN errorMessage ELSE "deleteFailed"
  /\ isDeleting' = FALSE
  /\ closeDeleteDialog(FALSE)
  /\ UNCHANGED <<deleteInFlight, deleteCalls, successMessage>>
  /\ DeleteKeepsForm

\* deleteEntry rejected: catch, finally, then closeDeleteDialog()
DeleteFails ==
  /\ deleteInFlight > 0
  /\ deleteInFlight' = deleteInFlight - 1
  /\ errorMessage' = "deleteFailed"
  /\ isDeleting' = FALSE
  /\ closeDeleteDialog(FALSE)
  /\ UNCHANGED <<deleteNavigating, deleteCalls, navigatedHome, successMessage>>
  /\ DeleteKeepsForm
(***************************************************************************)
(* PersonDossierService: the ETag cache of dossiers and of dossier PDFs.   *)
(* A Map is a function from its keys; a key is the string buildCacheKey    *)
(* returns.  A dossier payload and a PDF blob are opaque names.            *)
(***************************************************************************)
MaxInFlight == 2

defaultLimits == [profiles |-> 5, notes |-> 5, activities |-> 5]

\* a limit argument: a finite number, or anything clampLimit rejects
\* (undefined, null, NaN, Infinity)
Finite(n) == [finite |-> TRUE, n |-> n]
NotFinite == [finite |-> FALSE, n |-> 0]

clampLimit(value, fallback) ==
  IF ~value.finite THEN fallback
  ELSE IF value.n > 50 THEN 50
  ELSE IF value.n < 0 THEN 0
  ELSE value.n

resolveLimits(partial) ==
  [profiles |-> clampLimit(partial.profiles, defaultLimits.profiles),
   notes |-> clampLimit(partial.notes, defaultLimits.notes),
   activities |-> clampLimit(partial.activities, defaultLimits.activities)]

\* the normalized id as a string value, or Null
normalizePersonId(personId) ==
  IF personId.t = "number" THEN Str(IntToString(personId.n))
  ELSE IF personId.t = "string"
       THEN (IF Len(trim(personId.s)) > 0 THEN Str(trim(personId.s)) ELSE Null)
  ELSE Null

buildCacheKey(personId, limits) ==
  personId \o <<":", ":">> \o IntToString(limits.profiles) \o <<":">> \o IntToString(limits.notes)
           \o <<":">> \o IntToString(limits.activities)

\* the headers of a request: the If-None-Match value, Null when there is none
NoHeaders == [ifNoneMatch |-> Null]

buildHeadersIgnoresForce(etag, force) ==
  IF ~Truthy(etag) THEN NoHeaders ELSE [ifNoneMatch |-> etag]

buildHeaders(etag, force) ==
  IF ~Truthy(etag) \/ force THEN NoHeaders ELSE [ifNoneMatch |-> etag]

\* /filename=["']?([^"';]+)["']?/ tried at index i: the captured group, or <<>>
FilenameStop == {"\"", "'", ";"}

FilenameMatchAt(s, i) ==
  LET afterLiteral == i + 9
      from == IF afterLiteral <= Len(s) /\ s[afterLiteral] \in {"\"", "'"}
              THEN afterLiteral + 1 ELSE afterLiteral
      to == CHOOSE e \in from..(Len(s) + 1) :
              /\ e = Len(s) + 1 \/ s[e] \in FilenameStop
              /\ \A k \in from..(e - 1) : s[k] \notin FilenameStop
  IN IF afterLiteral - 1 <= Len(s) /\ SubSeq(s, i, afterLiteral - 1) = <<"f", "i", "l", "e", "n", "a", "m", "e", "=">>
     THEN SubSeq(s, from, to - 1)
     ELSE <<>>

extractFilename(contentDisposition) ==
  IF ~Truthy(contentDisposition) THEN Null
  ELSE LET s == contentDisposition.s
           matches == {i \in 1..Len(s) : FilenameMatchAt(s, i) # <<>>}
       IN IF matches = {} THEN Null
          ELSE Str(FilenameMatchAt(s, CHOOSE i \in matches : \A k \in matches : i <= k))

VARIABLES
  cache,                   \* Map<string, CachedDossier>
  pdfCache,                \* Map<string, CachedPdf>
  inflight,                \* the HTTP requests of the service awaiting their response
  lastResult               \* what the last call or response handler returned or threw

serviceVars == <<cache, pdfCache, inflight, lastResult>>

EmptyMap == [k \in {} |-> Null]
MapSet(m, k, v) == [x \in (DOMAIN m) \cup {k} |-> IF x = k THEN v ELSE m[x]]
MapWithout(m, dropped) == [x \in (DOMAIN m) \ dropped |-> m[x]]

NoBody == "none"

\* Map.get(key) as fetchDossier / downloadPdf capture it: undefined has present = FALSE
NoCached == [present |-> FALSE, data |-> NoBody, filename |-> <<>>, etag |-> Null]
MapGet(m, k) ==
  IF k \in DOMAIN m
  THEN [present |-> TRUE, data |-> m[k].data, filename |-> m[k].filename, etag |-> m[k].etag]
  ELSE NoCached

NoResult ==
  [kind |-> "none", data |-> NoBody, filename |-> <<>>, etag |-> Null, fromCache |-> FALSE,
   message |-> "", arg |-> Null]
Snapshot(data, filename, etag, fromCache) ==
  [NoResult EXCEPT !.kind = "snapshot", !.data = data, !.filename = filename, !.etag = etag,
                   !.fromCache = fromCache]
Error(message) == [NoResult EXCEPT !.kind = "error", !.message = message]
Cleared(arg) == [NoResult EXCEPT !.kind = "cleared", !.arg = arg]

ServiceInit ==
  /\ cache = EmptyMap
  /\ pdfCache = EmptyMap
  /\ inflight = <<>>
  /\ lastResult = NoResult

\* fetchDossier(personId, limits, {force}) with the subscription that sends the request
fetchDossier(personId, limits, force) ==
  /\ Len(inflight) < MaxInFlight
  /\ IF normalizePersonId(personId) = Null
     THEN /\ lastResult' = Error("Person ID is required for dossier view.")
          /\ UNCHANGED inflight
     ELSE /\ \E cacheKey \in {buildCacheKey(normalizePersonId(personId).s, resolveLimits(limits))} :
               \E cached \in {MapGet(cache, cacheKey)} :
                 inflight' = Append(inflight,
                                    [kind |-> "dossier", personId |-> normalizePersonId(personId).s,
                                     cacheKey |-> cacheKey, cached |-> cached,
                                     headers |-> buildHeaders(cached.etag, force)])
          /\ UNCHANGED lastResult
  /\ UNCHANGED <<cache, pdfCache>>

downloadPdf(personId, limits, force) ==
  /\ Len(inflight) < MaxInFlight
  /\ IF normalizePersonId(personId) = Null
     THEN /\ lastResult' = Error("Person ID is required for dossier export.")
          /\ UNCHANGED inflight
     ELSE /\ \E cacheKey \in {buildCacheKey(normalizePersonId(personId).s, resolveLimits(limits))
                               \o <<":", ":", "p", "d", "f">>} :
               \E cached \in {MapGet(pdfCache, cacheKey)} :
                 inflight' = Append(inflight,
                                    [kind |-> "pdf", personId |-> normalizePersonId(personId).s,
                                     cacheKey |-> cacheKey, cached |-> cached,
                                     headers |-> buildHeaders(cached.etag, force)])
          /\ UNCHANGED lastResult
  /\ UNCHANGED <<cache, pdfCache>>

clearCache(personId) ==
  /\ IF ~Truthy(personId)
     THEN /\ cache' = EmptyMap
          /\ pdfCache' = EmptyMap
     ELSE IF normalizePersonId(personId) = Null
     THEN UNCHANGED <<cache, pdfCache>>
     ELSE \E prefix \in {normalizePersonId(personId).s \o <<":", ":">>} :
            /\ cache' = MapWithout(cache, {key \in DOMAIN cache : startsWith(key, prefix)})
            /\ pdfCache' = MapWithout(pdfCache, {key \in DOMAIN pdfCache : startsWith(key, prefix)})
  /\ lastResult' = Cleared(personId)
  /\ UNCHANGED inflight

handleDossierResponseAlwaysStores(response, cacheKey, cached) ==
  \E body \in {IF response.body # NoBody THEN response.body ELSE cached.data} :
    /\ cache' = MapSet(cache, cacheKey, [data |-> body, filename |-> <<>>,
                                         etag |-> response.etag])
    /\ lastResult' = Snapshot(body, <<>>, response.etag, response.status = 304)

handleDossierResponse(response, cacheKey, cached) ==
  IF response.status = 304 /\ cached.present
  THEN /\ lastResult' = Snapshot(cached.data, <<>>, cached.etag, TRUE)
       /\ UNCHANGED cache
  ELSE \E body \in {IF response.body # NoBody THEN response.body ELSE cached.data} :
         IF body = NoBody
         THEN /\ lastResult' = Error("Dossier payload is empty.")
              /\ UNCHANGED cache
         ELSE /\ cache' = MapSet(cache, cacheKey, [data |-> body, filename |-> <<>>,
                                                   etag |-> response.etag])
              /\ lastResult' = Snapshot(body, <<>>, response.etag, FALSE)

handlePdfResponseStoresEmpty(response, cacheKey, cached, personId) ==
  IF response.status = 304 /\ cached.present
  THEN /\ lastResult' = Snapshot(cached.data, cached.filename, cached.etag, TRUE)
       /\ UNCHANGED pdfCache
  ELSE \E blob \in {IF response.body # NoBody THEN response.body ELSE cached.data} :
         /\ pdfCache' = MapSet(pdfCache, cacheKey, [data |-> blob, filename |-> <<>>,
                                                    etag |-> response.etag])
         /\ lastResult' = Snapshot(blob, <<>>, response.etag, FALSE)

handlePdfResponse(response, cacheKey, cached, personId) ==
  IF response.status = 304 /\ cached.present
  THEN /\ lastResult' = Snapshot(cached.data, cached.filename, cached.etag, TRUE)
       /\ UNCHANGED pdfCache
  ELSE \E blob \in {IF response.body # NoBody THEN response.body ELSE cached.data} :
         IF blob = NoBody
         THEN /\ lastResult' = Error("PDF payload is empty.")
              /\ UNCHANGED pdfCache
         ELSE \E filename \in {IF extractFilename(response.contentDisposition) # Null
                               THEN extractFilename(response.contentDisposition).s
                               ELSE <<"p", "e", "r", "s", "o", "n", "_">> \o personId \o <<"_", "d", "o", "s", "s", "i", "e", "r", ".", "p", "d", "f">>} :
                /\ pdfCache' = MapSet(pdfCache, cacheKey, [data |-> blob, filename |-> filename,
                                                           etag |-> response.etag])
                /\ lastResult' = Snapshot(blob, filename, response.etag, FALSE)

\* the response of the backend reaches the map() of fetchDossier
DossierResponds(i, response) ==
  /\ inflight[i].kind = "dossier"
  /\ inflight' = RemoveAt(inflight, i)
  /\ handleDossierResponse(response, inflight[i].cacheKey, inflight[i].cached)
  /\ UNCHANGED pdfCache

\* the response of the backend reaches the map() of downloadPdf
PdfResponds(i, response) ==
  /\ inflight[i].kind = "pdf"
  /\ inflight' = RemoveAt(inflight, i)
  /\ handlePdfResponse(response, inflight[i].cacheKey, inflight[i].cached, inflight[i].personId)
  /\ UNCHANGED cache

\* the request fails in the HTTP layer: the observable errors and map() never runs
RequestFails(i) ==
  /\ inflight' = RemoveAt(inflight, i)
  /\ lastResult' = Error("http")
  /\ UNCHANGED <<cache, pdfCache>>

\* what callers pass and what the backend answers
Response(status, body, etag, contentDisposition) ==
  [status |-> status, body |-> body, etag |-> etag, contentDisposition |-> contentDisposition]

NoLimits == [profiles |-> NotFinite, notes |-> NotFinite, activities |-> NotFinite]

\* callers that overlap: two keys and an id that is blank
ConcurrentCalls ==
  {[personId |-> Str(<<"4">>), limits |-> NoLimits],
   [personId |-> Str(<<" ", "4", "2", " ">>), limits |-> [NoLimits EXCEPT !.profiles = Finite(99)]],
   [personId |-> Str(<<" ", " ">>), limits |-> NoLimits]}

\* callers that wait for the answer: ids that share a prefix, under several limits
DossierCalls ==
  {[personId |-> Str(<<"4">>), limits |-> NoLimits],
   [personId |-> Str(<<"4">>), limits |-> [NoLimits EXCEPT !.notes = Finite(-3)]],
   [personId |-> Str(<<"4", "2">>), limits |-> NoLimits],
   [personId |-> Str(<<"4", ":", ":", "5">>), limits |-> NoLimits]}

PdfCalls ==
  {[personId |-> Num(4), limits |-> NoLimits],
   [personId |-> Str(<<"4", "2">>), limits |-> [NoLimits EXCEPT !.activities = Finite(10)]],
   [personId |-> Null, limits |-> NoLimits]}

ClearArgs == {Null, Str(<<>>), Str(<<" ">>), Str(<<"4">>), Str(<<"4", "2">>)}

DossierResponses ==
  {Response(200, "d1", Str(<<"W", "/", "1">>), Null),
   Response(200, "d2", Null, Null),
   Response(200, NoBody, Null, Null),
   Response(304, NoBody, Str(<<"W", "/", "1">>), Null)}

\* answers that fill the cache or carry nothing
FillResponses ==
  {Response(200, "d1", Str(<<"W", "/", "1">>), Null),
   Response(200, NoBody, Null, Null),
   Response(304, NoBody, Null, Null)}

PdfResponses ==
  {Response(200, "b1", Str(<<"W", "/", "1">>), Null),
   Response(200, "b1", Null, Str(<<"a", "t", "t", "a", "c", "h", "m", "e", "n", "t", ";", " ", "f", "i", "l", "e", "n", "a", "m", "e", "=", "\"", "a", ".", "p", "d", "f", "\"">>)),
   Response(200, NoBody, Null, Null)}

(***************************************************************************)
(* PersonDossierComponent: every fetch takes a token from requestToken and *)
(* its callbacks compare their token with the counter.  The service is     *)
(* seen through its outcomes: a snapshot, or an error.                     *)
(***************************************************************************)
MaxTokens == 3

limitOptions == {5, 10, 25, 50}

\* the limits a user picks here, and the sections they pick them for
LimitChoices == {value \in limitOptions : value <= 10}
EditedSections == {"profiles", "notes"}

\* the values of the personId input
PersonInputs == {Null, Str(<<"7">>), Str(<<"8">>), Str(<<" ">>)}

VARIABLES
  dossierPersonId,         \* @Input() personId
  requestToken,
  dossierIsLoading,        \* isLoading signal
  dossierErrorMessage,     \* errorMessage signal, "none" for null
  dossierState,            \* state signal: [loaded, person, limits]
  limits,                  \* limits signal
  isPdfDownloading,
  subscriptions,           \* the fetches whose observable has not answered yet
  pdfDownload,             \* is the request of downloadPdf() out
  lastResponse             \* did the last next/error callback pass its token check

componentVars ==
  <<dossierPersonId, requestToken, dossierIsLoading, dossierErrorMessage, dossierState,
    limits, isPdfDownloading, subscriptions, pdfDownload, lastResponse>>

NoDossier == [loaded |-> FALSE, person |-> <<>>, limits |-> defaultLimits]

ComponentInit ==
  /\ dossierPersonId = Null
  /\ requestToken = 0
  /\ dossierIsLoading = FALSE
  /\ dossierErrorMessage = "none"
  /\ dossierState = NoDossier
  /\ limits = [profiles |-> 5, notes |-> 5, activities |-> 5]
  /\ isPdfDownloading = FALSE
  /\ subscriptions = {}
  /\ pdfDownload = FALSE
  /\ lastResponse = "none"

\* describeError(error) of the component
componentDescribeError(error) ==
  CASE error = "403" -> "hiddenFromUser"
    [] error = "404" -> "hiddenFromUser"
    [] error = "500" -> "Http failure response"
    [] OTHER -> error

\* the private fetchDossier(force) for the limits in effect when it is called;
\* PersonDossierService.fetchDossier throws before it subscribes when the id is blank
componentFetchDossier(id, currentLimits, force) ==
  IF ~Truthy(id)
  THEN UNCHANGED <<requestToken, dossierIsLoading, dossierErrorMessage, subscriptions>>
  ELSE /\ requestToken' = requestToken + 1
       /\ dossierIsLoading' = TRUE
       /\ dossierErrorMessage' = "none"
       /\ IF normalizePersonId(id) = Null
          THEN UNCHANGED subscriptions
          ELSE subscriptions' = subscriptions \cup
                 {[token |-> requestToken + 1, person |-> normalizePersonId(id).s,
                   limits |-> resolveLimits([profiles |-> Finite(currentLimits.profiles),
                                             notes |-> Finite(currentLimits.notes),
                                             activities |-> Finite(currentLimits.activities)]),
                   force |-> force]}

componentNgOnChanges(id) ==
  /\ id # dossierPersonId
  /\ requestToken < MaxTokens
  /\ dossierPersonId' = id
  /\ componentFetchDossier(id, limits, TRUE)
  /\ UNCHANGED <<dossierState, limits, isPdfDownloading, pdfDownload, lastResponse>>

componentRefresh ==
  /\ Truthy(dossierPersonId)
  /\ requestToken < MaxTokens
  /\ componentFetchDossier(dossierPersonId, limits, TRUE)
  /\ UNCHANGED <<dossierPersonId, dossierState, limits, isPdfDownloading, pdfDownload,
                 lastResponse>>

updateLimit(section, value) ==
  /\ limits[section] # value
  /\ requestToken < MaxTokens
  /\ limits' = [limits EXCEPT ![section] = value]
  /\ componentFetchDossier(dossierPersonId, [limits EXCEPT ![section] = value], FALSE)
  /\ UNCHANGED <<dossierPersonId, dossierState, isPdfDownloading, pdfDownload, lastResponse>>

\* next: of the subscription, then the teardown added with add()
fetchNextFirstResponseWins(request, meta) ==
  /\ request \in subscriptions
  /\ subscriptions' = subscriptions \ {request}
  /\ lastResponse' = "applied"
  /\ dossierState' = [loaded |-> TRUE, person |-> request.person, limits |-> request.limits]
  /\ limits' = IF meta THEN request.limits ELSE limits
  /\ dossierIsLoading' = FALSE
  /\ UNCHANGED <<dossierPersonId, requestToken, dossierErrorMessage, isPdfDownloading,
                 pdfDownload>>

fetchNext(request, meta) ==
  /\ request \in subscriptions
  /\ subscriptions' = subscriptions \ {request}
  /\ IF request.token # requestToken
     THEN /\ lastResponse' = "ignored"
          /\ UNCHANGED <<dossierState, limits, dossierIsLoading>>
     ELSE /\ lastResponse' = "applied"
          /\ dossierState' = [loaded |-> TRUE, person |-> request.person,
                              limits |-> request.limits]
          /\ limits' = IF meta THEN request.limits ELSE limits
          /\ dossierIsLoading' = FALSE
  /\ UNCHANGED <<dossierPersonId, requestToken, dossierErrorMessage, isPdfDownloading,
                 pdfDownload>>

\* error: of the subscription, then the teardown added with add()
fetchError(request, error) ==
  /\ request \in subscriptions
  /\ subscriptions' = subscriptions \ {request}
  /\ IF request.token = requestToken
     THEN /\ lastResponse' = "applied"
          /\ dossierErrorMessage' = componentDescribeError(error)
          /\ dossierIsLoading' = FALSE
     ELSE /\ lastResponse' = "ignored"
          /\ UNCHANGED <<dossierErrorMessage, dossierIsLoading>>
  /\ UNCHANGED <<dossierPersonId, requestToken, dossierState, limits, isPdfDownloading,
                 pdfDownload>>

\* downloadPdf() up to its await; a blank id makes the service throw inside the try
componentDownloadPdf ==
  /\ Truthy(dossierPersonId)
  /\ ~isPdfDownloading
  /\ IF normalizePersonId(dossierPersonId) = Null
     THEN /\ dossierErrorMessage' = "Person ID is required for dossier export."
          /\ UNCHANGED <<isPdfDownloading, pdfDownload>>
     ELSE /\ isPdfDownloading' = TRUE
          /\ pdfDownload' = TRUE
          /\ UNCHANGED dossierErrorMessage
  /\ UNCHANGED <<dossierPersonId, requestToken, dossierIsLoading, dossierState, limits,
                 subscriptions, lastResponse>>

\* downloadPdf() after its await
pdfDownloaded ==
  /\ pdfDownload
  /\ pdfDownload' = FALSE
  /\ isPdfDownloading' = FALSE
  /\ UNCHANGED <<dossierPersonId, requestToken, dossierIsLoading, dossierErrorMessage,
                 dossierState, limits, subscriptions, lastResponse>>

pdfDownloadFails(error) ==
  /\ pdfDownload
  /\ pdfDownload' = FALSE
  /\ isPdfDownloading' = FALSE
  /\ dossierErrorMessage' = componentDescribeError(error)
  /\ UNCHANGED <<dossierPersonId, requestToken, dossierIsLoading, dossierState, limits,
                 subscriptions, lastResponse>>

FetchErrors == {"403", "500", "Dossier payload is empty."}

(***************************************************************************)
(* EntryDetailRelationsComponent: loadPersonRelations and the lists it     *)
(* fills.  A payload is a JavaScript value; an item of a list is the       *)
(* RelatedEntryItem the normalizers build.                                 *)
(***************************************************************************)
MaxLoads == 2

\* record[key], undefined read as Null
Prop(record, key) ==
  IF \E i \in 1..Len(record.keys) : record.keys[i] = key
  THEN record.kids[CHOOSE i \in 1..Len(record.keys) : record.keys[i] = key]
  ELSE Null

IsText(value) == value.t = "string" /\ Len(trim(value.s)) > 0

\* the first key whose value extractText accepts, 0 when there is none
FirstText(record, keys) ==
  IF \E i \in 1..Len(keys) : IsText(Prop(record, keys[i]))
  THEN CHOOSE i \in 1..Len(keys) :
         /\ IsText(Prop(record, keys[i]))
         /\ \A j \in 1..(i - 1) : ~IsText(Prop(record, keys[j]))
  ELSE 0

extractText(record, keys) ==
  LET first == FirstText(record, keys)
  IN IF first = 0 THEN Null ELSE Str(trim(Prop(record, keys[first]).s))

\* the first key whose value extractId accepts, 0 when there is none
FirstId(record, keys) ==
  IF \E i \in 1..Len(keys) : IsText(Prop(record, keys[i])) \/ Prop(record, keys[i]).t = "number"
  THEN CHOOSE i \in 1..Len(keys) :
         /\ IsText(Prop(record, keys[i])) \/ Prop(record, keys[i]).t = "number"
         /\ \A j \in 1..(i - 1) :
              ~(IsText(Prop(record, keys[j])) \/ Prop(record, keys[j]).t = "number")
  ELSE 0

extractId(record, keys) ==
  LET first == FirstId(record, keys)
      value == Prop(record, keys[first])
  IN IF first = 0 THEN Null
     ELSE IF value.t = "number" THEN Str(IntToString(value.n)) ELSE Str(trim(value.s))

\* typeof item === 'object' && item !== null
IsObject(value) == value.t \in {"object", "array"}

extractItems(payload) ==
  IF payload.t = "array" THEN SelectSeq(payload.kids, IsObject)
  ELSE IF payload.t = "object" /\ Prop(payload, <<"i", "t", "e", "m", "s">>).t = "array"
       THEN SelectSeq(Prop(payload, <<"i", "t", "e", "m", "s">>).kids, IsObject)
  ELSE <<>>

\* an item of a list; a property the normalizer leaves out is Null, and
\* routerLink is <<>> when the item has no id
RelatedEntryItem(id, label, description, timestamp, type, note) ==
  [id |-> id, label |-> label, description |-> description, timestamp |-> timestamp,
   routerLink |-> IF Truthy(id) THEN <<<<"/", "e", "n", "t", "r", "i", "e", "s">>, type, id.s>> ELSE <<>>,
   type |-> type, note |-> note]

\* value ?? fallback
OrFallback(value, fallback) == IF value = Null THEN Str(fallback) ELSE value

\* [record['platform'], record['status']] filtered to the non-blank strings
descriptionParts(record) ==
  SelectSeq(<<Prop(record, <<"p", "l", "a", "t", "f", "o", "r", "m">>), Prop(record, <<"s", "t", "a", "t", "u", "s">>)>>, IsText)

ProfileItem(record) ==
  RelatedEntryItem(
    extractId(record, <<<<"p", "r", "o", "f", "i", "l", "e", "_", "i", "d">>, <<"i", "d">>>>),
    OrFallback(extractText(record, <<<<"d", "i", "s", "p", "l", "a", "y", "_", "n", "a", "m", "e">>, <<"u", "s", "e", "r", "n", "a", "m", "e">>, <<"p", "l", "a", "t", "f", "o", "r", "m">>>>),
               <<"P", "r", "o", "f", "i", "l", "e">>),
    Str(Join([i \in 1..Len(descriptionParts(record)) |-> descriptionParts(record)[i].s],
             <<" ", "-", " ">>)),
    Null,
    <<"p", "r", "o", "f", "i", "l", "e", "s">>,
    extractText(record, <<<<"n", "o", "t", "e">>, <<"r", "e", "l", "a", "t", "i", "o", "n", "_", "n", "o", "t", "e">>, <<"p", "r", "o", "f", "i", "l", "e", "_", "n", "o", "t", "e">>>>))

normalizeProfiles(payload) ==
  LET items == extractItems(payload)
  IN [i \in 1..Len(items) |-> ProfileItem(items[i])]

\* text && text.length > 80 ? `${text.slice(0, 80)}...` : text
Snippet(text) ==
  IF text # Null /\ Len(text.s) > 80 THEN Str(SubSeq(text.s, 1, 80) \o <<".", ".", ".">>) ELSE text

NoteItem(record) ==
  RelatedEntryItem(
    extractId(record, << <<"i", "d">> >>),
    OrFallback(extractText(record, << <<"t", "i", "t", "l", "e">> >>), <<"N", "o", "t", "e">>),
    Snippet(extractText(record, << <<"t", "e", "x", "t">> >>)),
    extractText(record, <<<<"c", "r", "e", "a", "t", "e", "d", "_", "a", "t">>, <<"u", "p", "d", "a", "t", "e", "d", "_", "a", "t">>>>),
    <<"n", "o", "t", "e", "s">>,
    Null)

normalizeNotes(payload) ==
  LET items == extractItems(payload)
  IN [i \in 1..Len(items) |-> NoteItem(items[i])]

ActivityItem(record) ==
  RelatedEntryItem(
    extractId(record, << <<"i", "d">> >>),
    OrFallback(extractText(record, << <<"a", "c", "t", "i", "v", "i", "t", "y", "_", "t", "y", "p", "e">> >>), <<"A", "c", "t", "i", "v", "i", "t", "y">>),
    extractText(record, <<<<"i", "t", "e", "m">>, <<"n", "o", "t", "e", "s">>>>),
    extractText(record, <<<<"o", "c", "c", "u", "r", "r", "e", "d", "_", "a", "t">>, <<"u", "p", "d", "a", "t", "e", "d", "_", "a", "t">>>>),
    <<"a", "c", "t", "i", "v", "i", "t", "i", "e", "s">>,
    Null)

\* extractItems(payload).slice(0, 25).map(...)
normalizeActivities(payload) ==
  LET items == extractItems(payload)
  IN [i \in 1..(IF Len(items) < 25 THEN Len(items) ELSE 25) |-> ActivityItem(items[i])]

\* what a request is rejected with: an Error, an object with a message
\* property, or anything else
ErrorReason(message) == [kind |-> "Error", message |-> Str(message)]
ObjectReason(message) == [kind |-> "object", message |-> message]
OtherReason == [kind |-> "other", message |-> Null]

\* describeError(error) of this component; the translation of the last case
\* is written as its key
relationsDescribeError(error) ==
  IF error.kind = "Error" THEN error.message.s
  ELSE IF error.kind = "object" THEN StringOrEmpty(error.message)
  ELSE <<"e", "n", "t", "r", "y", "D", "e", "t", "a", "i", "l", ".", "e", "r", "r", "o", "r", "s", ".", "u", "n", "k", "n", "o", "w", "n">>

VARIABLES
  relationsPersonId,       \* @Input() personId
  relatedProfiles,
  relatedNotes,
  relatedActivities,
  isRelationsLoading,
  relationsError,          \* Null, or Str of the joined messages
  profileLinkError,
  isManagingProfileLinks,
  loads,                   \* the loadPersonRelations calls waiting in Promise.allSettled
  settled                  \* the three results the last finished call got, <<>> before any

relationsVars ==
  <<relationsPersonId, relatedProfiles, relatedNotes, relatedActivities, isRelationsLoading, relationsError,
    profileLinkError, isManagingProfileLinks, loads, settled>>

RelationsInit ==
  /\ relationsPersonId = Null
  /\ relatedProfiles = <<>>
  /\ relatedNotes = <<>>
  /\ relatedActivities = <<>>
  /\ isRelationsLoading = FALSE
  /\ relationsError = Null
  /\ profileLinkError = Null
  /\ isManagingProfileLinks = FALSE
  /\ loads = <<>>
  /\ settled = <<>>

clearRelations ==
  /\ relatedProfiles' = <<>>
  /\ relatedNotes' = <<>>
  /\ relatedActivities' = <<>>
  /\ relationsError' = Null
  /\ isRelationsLoading' = FALSE
  /\ profileLinkError' = Null
  /\ isManagingProfileLinks' = FALSE
  /\ UNCHANGED <<loads, settled>>

\* loadPersonRelations(personId) up to its await: the three GETs leave together
loadPersonRelations(personId) ==
  /\ Len(loads) < MaxLoads
  /\ isRelationsLoading' = TRUE
  /\ relationsError' = Null
  /\ loads' = Append(loads, personId)
  /\ UNCHANGED <<relatedProfiles, relatedNotes, relatedActivities, profileLinkError,
                 isManagingProfileLinks, settled>>

\* ngOnChanges with a changed personId
relationsNgOnChanges(personId) ==
  /\ personId # relationsPersonId
  /\ relationsPersonId' = personId
  /\ IF personId # Null /\ Len(trim(personId.s)) > 0
     THEN loadPersonRelations(trim(personId.s))
     ELSE clearRelations

\* one result of Promise.allSettled
Fulfilled(value) == [status |-> "fulfilled", value |-> value, reason |-> OtherReason]
Rejected(reason) == [status |-> "rejected", value |-> Null, reason |-> reason]

IsRejected(result) == result.status = "rejected"

\* errors: the message of every rejected result, in the order of the requests
SettledErrors(results) ==
  [i \in 1..Len(SelectSeq(results, IsRejected)) |->
     relationsDescribeError(SelectSeq(results, IsRejected)[i].reason)]

loadPersonRelationsSettledClearsFailed(i, profilesResult, notesResult, activitiesResult) ==
  /\ i \in 1..Len(loads)
  /\ loads' = RemoveAt(loads, i)
  /\ settled' = <<profilesResult, notesResult, activitiesResult>>
  /\ relatedProfiles' = IF profilesResult.status = "fulfilled"
                        THEN normalizeProfiles(profilesResult.value) ELSE <<>>
  /\ relatedNotes' = IF notesResult.status = "fulfilled"
                     THEN normalizeNotes(notesResult.value) ELSE <<>>
  /\ relatedActivities' = IF activitiesResult.status = "fulfilled"
                          THEN normalizeActivities(activitiesResult.value) ELSE <<>>
  /\ \E errors \in {SettledErrors(<<profilesResult, notesResult, activitiesResult>>)} :
       relationsError' = IF Len(errors) > 0 THEN Str(Join(errors, <<" ", "|", " ">>)) ELSE Null
  /\ isRelationsLoading' = FALSE
  /\ UNCHANGED <<relationsPersonId, profileLinkError, isManagingProfileLinks>>

\* loadPersonRelations after its await, with its finally
loadPersonRelationsSettled(i, profilesResult, notesResult, activitiesResult) ==
  /\ i \in 1..Len(loads)
  /\ loads' = RemoveAt(loads, i)
  /\ settled' = <<profilesResult, notesResult, activitiesResult>>
  /\ relatedProfiles' = IF profilesResult.status = "fulfilled"
                        THEN normalizeProfiles(profilesResult.value) ELSE relatedProfiles
  /\ relatedNotes' = IF notesResult.status = "fulfilled"
                     THEN normalizeNotes(notesResult.value) ELSE relatedNotes
  /\ relatedActivities' = IF activitiesResult.status = "fulfilled"
                          THEN normalizeActivities(activitiesResult.value)
                          ELSE relatedActivities
  /\ \E errors \in {SettledErrors(<<profilesResult, notesResult, activitiesResult>>)} :
       relationsError' = IF Len(errors) > 0 THEN Str(Join(errors, <<" ", "|", " ">>)) ELSE Null
  /\ isRelationsLoading' = FALSE
  /\ UNCHANGED <<relationsPersonId, profileLinkError, isManagingProfileLinks>>

\* the values of the personId input, and what the three endpoints answer
RelationIds == {Null, Str(<<"7">>), Str(<<" ", "8", " ">>), Str(<<" ", " ">>)}

ProfilesResults ==
  {Fulfilled(Arr(<<Obj(<<<<"p", "r", "o", "f", "i", "l", "e", "_", "i", "d">>, <<"u", "s", "e", "r", "n", "a", "m", "e">>, <<"p", "l", "a", "t", "f", "o", "r", "m">>, <<"s", "t", "a", "t", "u", "s">>>>,
                       <<Num(3), Str(<<" ", "a", "l", " ">>), Str(<<"i", "r", "c">>), Str(<<" ", " ">>)>>),
                   Str(<<"x">>)>>)),
   Fulfilled(Obj(<< <<"i", "t", "e", "m", "s">> >>, <<Arr(<<Obj(<< <<"i", "d">> >>, <<Str(<<" ", "p", "9", " ">>)>>), Null>>)>>)),
   Rejected(ErrorReason(<<"p", "r", "o", "f", "i", "l", "e", "s", " ", "d", "o", "w", "n">>))}

NotesResults ==
  {Fulfilled(Arr(<<Obj(<<<<"i", "d">>, <<"t", "i", "t", "l", "e">>, <<"t", "e", "x", "t">>, <<"u", "p", "d", "a", "t", "e", "d", "_", "a", "t">>>>,
                       <<Num(4), Str(<<"M", "e", "m", "o">>), Str([i \in 1..81 |-> "n"]),
                         Str(<<"2", "0", "2", "4", "-", "0", "3", "-", "0", "5">>)>>)>>)),
   Fulfilled(Str(<<"n", "o", "t", "h", "i", "n", "g">>)),
   Rejected(ObjectReason(Null))}

ActivitiesResults ==
  {Fulfilled(Arr([i \in 1..26 |-> Obj(<< <<"i", "d">> >>, <<Num(i)>>)])),
   Fulfilled(Obj(<< <<"i", "t", "e", "m", "s">> >>,
                 <<Arr(<<Obj(<<<<"a", "c", "t", "i", "v", "i", "t", "y", "_", "t", "y", "p", "e">>, <<"n", "o", "t", "e", "s">>>>,
                             <<Str(<<"l", "o", "g", "i", "n">>), Str(<<"o", "k">>)>>)>>)>>)),
   Rejected(OtherReason)}
(***************************************************************************)
(* PersonLookupComponent, ProfileLookupComponent, PlatformLookupComponent: *)
(* searchControl.valueChanges through debounceTime and                     *)
(* distinctUntilChanged into handleInputChange.  Time passes in steps of   *)
(* half the quiet period.                                                  *)
(***************************************************************************)
MaxKeystrokes == 3
MaxOpens == 2

\* debounceTime(200)
debounceMs == 200

TimeStep == debounceMs \div 2

LookupKinds == {"persons", "profiles", "platforms"}

\* what a user types into the search box
TypedValues == {<<>>, <<"a">>, <<"a", " ">>, <<"1", "2">>}

VARIABLES
  lookupKind,              \* which of the three pickers this is
  searchControl,           \* searchControl.value
  lookupIsOpen,            \* isOpen signal
  lookupSelectedId,        \* selectedId signal, Null or Str
  lookupResults,           \* results signal: [shown, term], the term they answer
  lookupIsLoading,
  debounce,                \* debounceTime: [armed, value, elapsed]
  distinct,                \* distinctUntilChanged: [seen, value]
  lookupRequests,          \* the listEntries calls made: how many, how many of them for a
                           \* typed value, and the last one
  lookupInFlight,          \* the terms of the calls not answered yet
  keystrokes,
  opens

lookupVars ==
  <<lookupKind, searchControl, lookupIsOpen, lookupSelectedId, lookupResults,
    lookupIsLoading, debounce, distinct, lookupRequests, lookupInFlight, keystrokes, opens>>

NoResults == [shown |-> FALSE, term |-> <<>>]

LookupInit ==
  /\ lookupKind \in LookupKinds
  /\ searchControl = <<>>
  /\ lookupIsOpen = FALSE
  /\ lookupSelectedId = Null
  /\ lookupResults = NoResults
  /\ lookupIsLoading = FALSE
  /\ debounce = [armed |-> FALSE, value |-> <<>>, elapsed |-> 0]
  /\ distinct = [seen |-> FALSE, value |-> <<>>]
  /\ lookupRequests = [sent |-> 0, typed |-> 0, term |-> <<>>, origin |-> "none"]
  /\ lookupInFlight = {}
  /\ keystrokes = 0
  /\ opens = 0

\* performSearch(term) up to its await
performSearch(term, origin) ==
  /\ lookupIsLoading' = TRUE
  /\ lookupRequests' = [sent |-> lookupRequests.sent + 1,
                        typed |-> lookupRequests.typed + (IF origin = "typed" THEN 1 ELSE 0),
                        term |-> term, origin |-> origin]
  /\ lookupInFlight' = lookupInFlight \cup {term}

NoSearch == UNCHANGED <<lookupIsLoading, lookupRequests, lookupInFlight>>

\* /^\d+$/.test(value)
OnlyDigits(value) == value # <<>> /\ AllDigits(value)

lookupHandleInputChange(rawValue) ==
  \E value \in {trim(rawValue)} :
    IF value = <<>>
    THEN /\ lookupSelectedId' = Null
         /\ IF lookupIsOpen THEN performSearch(<<>>, "typed") ELSE NoSearch
         /\ UNCHANGED <<lookupIsOpen, lookupResults>>
    ELSE IF OnlyDigits(value)
    THEN /\ lookupSelectedId' = Str(value)
         /\ NoSearch
         /\ IF lookupKind = "platforms"
            THEN UNCHANGED <<lookupIsOpen, lookupResults>>
            ELSE lookupIsOpen' = FALSE /\ lookupResults' = NoResults
    ELSE /\ lookupSelectedId' = Null
         /\ IF lookupIsOpen THEN performSearch(value, "typed") ELSE NoSearch
         /\ UNCHANGED <<lookupIsOpen, lookupResults>>

\* the user changes the text of the search box: valueChanges emits and
\* debounceTime starts its timer again
TypeText(value) ==
  /\ keystrokes < MaxKeystrokes
  /\ value # searchControl
  /\ keystrokes' = keystrokes + 1
  /\ searchControl' = value
  /\ debounce' = [armed |-> TRUE, value |-> value, elapsed |-> 0]
  /\ UNCHANGED <<lookupKind, lookupIsOpen, lookupSelectedId, lookupResults, lookupIsLoading,
                 distinct, lookupRequests, lookupInFlight, opens>>

\* time passes while the timer of debounceTime runs
TimePasses ==
  /\ debounce.armed
  /\ debounce.elapsed < debounceMs
  /\ debounce' = [debounce EXCEPT !.elapsed = debounce.elapsed + TimeStep]
  /\ UNCHANGED <<lookupKind, searchControl, lookupIsOpen, lookupSelectedId, lookupResults,
                 lookupIsLoading, distinct, lookupRequests, lookupInFlight, keystrokes, opens>>

DebounceFiresWithoutDistinct ==
  /\ debounce.armed
  /\ debounce.elapsed >= debounceMs
  /\ debounce' = [debounce EXCEPT !.armed = FALSE]
  /\ distinct' = [seen |-> TRUE, value |-> debounce.value]
  /\ lookupHandleInputChange(debounce.value)
  /\ UNCHANGED <<lookupKind, searchControl, keystrokes, opens>>

\* the timer of debounceTime(200) ends: the last value goes on to
\* distinctUntilChanged and, if it passes, to the subscriber
DebounceFires ==
  /\ debounce.armed
  /\ debounce.elapsed >= debounceMs
  /\ debounce' = [debounce EXCEPT !.armed = FALSE]
  /\ distinct' = [seen |-> TRUE, value |-> debounce.value]
  /\ IF distinct.seen /\ distinct.value = debounce.value
     THEN NoSearch /\ UNCHANGED <<lookupIsOpen, lookupSelectedId, lookupResults>>
     ELSE lookupHandleInputChange(debounce.value)
  /\ UNCHANGED <<lookupKind, searchControl, keystrokes, opens>>

openSearch ==
  /\ opens < MaxOpens
  /\ opens' = opens + 1
  /\ lookupIsOpen' = TRUE
  /\ performSearch(searchControl, "opened")
  /\ UNCHANGED <<lookupKind, searchControl, lookupSelectedId, lookupResults, debounce,
                 distinct, keystrokes>>

closeSearch ==
  /\ lookupIsOpen
  /\ lookupIsOpen' = FALSE
  /\ lookupResults' = NoResults
  /\ UNCHANGED <<lookupKind, searchControl, lookupSelectedId, lookupIsLoading, debounce,
                 distinct, lookupRequests, lookupInFlight, keystrokes, opens>>

\* clearSelection(): setValue('', { emitEvent: false }) emits nothing
clearSelection ==
  /\ searchControl # <<>>
  /\ searchControl' = <<>>
  /\ lookupSelectedId' = Null
  /\ lookupResults' = NoResults
  /\ UNCHANGED <<lookupKind, lookupIsOpen, lookupIsLoading, debounce, distinct,
                 lookupRequests, lookupInFlight, keystrokes, opens>>

\* performSearch after its await: the results, or the error as the one result
SearchSettles(term) ==
  /\ term \in lookupInFlight
  /\ lookupResults' = [shown |-> TRUE, term |-> term]
  /\ lookupIsLoading' = FALSE
  /\ lookupInFlight' = lookupInFlight \ {term}
  /\ UNCHANGED <<lookupKind, searchControl, lookupIsOpen, lookupSelectedId, debounce,
                 distinct, lookupRequests, keystrokes, opens>>
(***************************************************************************)
(* ApiService.request: the permission gate in front of HttpClient.  The    *)
(* class exists twice in the sources: in api.service.ts, and an older copy *)
(* behind ThemeService in theme.service.ts that asks auth.canWrite().      *)
(***************************************************************************)
MaxApiCalls == 2

toUpperCase(s) ==
  [i \in 1..Len(s) |->
     IF \E upper \in DOMAIN UpperToLower : UpperToLower[upper] = s[i]
     THEN CHOOSE upper \in DOMAIN UpperToLower : UpperToLower[upper] = s[i]
     ELSE s[i]]

\* type HttpMethod, and a lower-case method passed through a cast
HttpMethods == {<<"G", "E", "T">>, <<"P", "O", "S", "T">>, <<"P", "U", "T">>, <<"P", "A", "T", "C", "H">>, <<"D", "E", "L", "E", "T", "E">>}
MethodArguments == HttpMethods \cup {<<"d", "e", "l", "e", "t", "e">>}

\* what AuthService answers to the gate
Permissions == [canEditEntries : BOOLEAN, canDeleteEntries : BOOLEAN, canWrite : BOOLEAN]

\* API_BASE_URL, and the endpoints callers pass
BaseUrls == {<<"h", "t", "t", "p", ":", "/", "/", "h">>, <<"h", "t", "t", "p", ":", "/", "/", "h", "/", "/">>}
Endpoints == {<<"/", "p", "e", "r", "s", "o", "n", "s", "/", "4">>, <<"n", "o", "t", "e", "s", " ">>, <<>>}

VARIABLES
  permissions,             \* the answers of AuthService
  baseUrl,                 \* API_BASE_URL
  httpRequests,            \* what reached HttpClient.request: [sent, method, url]
  apiOutcome               \* the last call of request: "none", "sent", "thrown"

apiVars == <<permissions, baseUrl, httpRequests, apiOutcome>>

ApiInit ==
  /\ permissions \in Permissions
  /\ baseUrl \in BaseUrls
  /\ httpRequests = [sent |-> 0, method |-> <<>>, url |-> <<>>]
  /\ apiOutcome = "none"

\* replace(/\/+$/, '')
RECURSIVE StripTrailingSlashes(_)
StripTrailingSlashes(s) ==
  IF s # <<>> /\ s[Len(s)] = "/" THEN StripTrailingSlashes(SubSeq(s, 1, Len(s) - 1)) ELSE s

buildUrl(endpoint) ==
  IF trim(endpoint) = <<>> THEN StripTrailingSlashes(baseUrl)
  ELSE IF startsWith(trim(endpoint), <<"/">>)
       THEN StripTrailingSlashes(baseUrl) \o trim(endpoint)
       ELSE StripTrailingSlashes(baseUrl) \o <<"/">> \o trim(endpoint)

\* this.http.request(method, url, ...)
HttpRequest(method, endpoint) ==
  /\ httpRequests' = [sent |-> httpRequests.sent + 1, method |-> method,
                      url |-> buildUrl(endpoint)]
  /\ apiOutcome' = "sent"

\* throw new Error('Insufficient permissions for this operation.')
InsufficientPermissions ==
  /\ apiOutcome' = "thrown"
  /\ UNCHANGED httpRequests

apiRequestUngated(method, endpoint) ==
  /\ httpRequests.sent < MaxApiCalls
  /\ HttpRequest(toUpperCase(method), endpoint)
  /\ UNCHANGED <<permissions, baseUrl>>

\* ApiService.request of api.service.ts
apiRequest(method, endpoint) ==
  /\ httpRequests.sent < MaxApiCalls
  /\ \E normalizedMethod \in {toUpperCase(method)} :
       IF normalizedMethod = <<"D", "E", "L", "E", "T", "E">> /\ ~permissions.canDeleteEntries
       THEN InsufficientPermissions
       ELSE IF /\ normalizedMethod # <<"G", "E", "T">>
               /\ normalizedMethod # <<"D", "E", "L", "E", "T", "E">>
               /\ ~permissions.canEditEntries
       THEN InsufficientPermissions
       ELSE HttpRequest(normalizedMethod, endpoint)
  /\ UNCHANGED <<permissions, baseUrl>>

\* ApiService.request of the copy in theme.service.ts
requestWithCanWrite(method, endpoint) ==
  /\ httpRequests.sent < MaxApiCalls
  /\ IF method # <<"G", "E", "T">> /\ ~permissions.canWrite
     THEN InsufficientPermissions
     ELSE HttpRequest(method, endpoint)
  /\ UNCHANGED <<permissions, baseUrl>>

\* the signed-in user changes (login, logout)
PermissionsChange(answers) ==
  /\ answers # permissions
  /\ permissions' = answers
  /\ UNCHANGED <<baseUrl, httpRequests, apiOutcome>>
(***************************************************************************)
(* EntryCreateComponent: the create form built from a schema, its raw      *)
(* JSON box, and submit().  Of every schema the fields of one kind each    *)
(* are kept; a field left out is one the user leaves valid and untouched.  *)
(***************************************************************************)
MaxCreates == 2

\* an EntrySchemaField; defaultValue Null and dateVariant "none" stand for undefined
SchemaField(key, type, required, defaultValue, dateVariant) ==
  [key |-> key, type |-> type, required |-> required, defaultValue |-> defaultValue,
   dateVariant |-> dateVariant]

NoSchema == [fields |-> <<>>, requireOneOf |-> <<>>]

\* ENTRY_SCHEMAS
personsSchema ==
  [fields |-> <<SchemaField(<<"f", "i", "r", "s", "t", "_", "n", "a", "m", "e">>, "text", TRUE, Null, "none"),
                SchemaField(<<"d", "a", "t", "e", "_", "o", "f", "_", "b", "i", "r", "t", "h">>, "date", FALSE, Null, "date"),
                SchemaField(<<"m", "e", "t", "a", "d", "a", "t", "a">>, "json", FALSE, Null, "none")>>,
   requireOneOf |-> <<>>]

activitiesSchema ==
  [fields |-> <<SchemaField(<<"a", "c", "t", "i", "v", "i", "t", "y", "_", "t", "y", "p", "e">>, "text", TRUE, Str(<<"S", "t", "a", "n", "d", "a", "r", "d">>), "none"),
                SchemaField(<<"o", "c", "c", "u", "r", "r", "e", "d", "_", "a", "t">>, "date", FALSE, Null, "datetime"),
                SchemaField(<<"p", "r", "o", "f", "i", "l", "e", "_", "i", "d">>, "number", FALSE, Null, "none"),
                SchemaField(<<"i", "t", "e", "m">>, "text", FALSE, Null, "none")>>,
   requireOneOf |-> <<<<"v", "e", "h", "i", "c", "l", "e", "_", "i", "d">>, <<"p", "r", "o", "f", "i", "l", "e", "_", "i", "d">>, <<"c", "o", "m", "m", "u", "n", "i", "t", "y", "_", "i", "d">>, <<"i", "t", "e", "m">>>>]

\* ENTRY_SCHEMAS[normalized] ?? null
getEntrySchema(type) ==
  CHOOSE schema \in
    {IF normalized = <<"p", "e", "r", "s", "o", "n", "s">> THEN personsSchema
     ELSE IF normalized = <<"a", "c", "t", "i", "v", "i", "t", "i", "e", "s">> THEN activitiesSchema
     ELSE NoSchema :
     normalized \in {toLowerCase(trim(type))}} : TRUE

\* the :type parameter of the route; Null is a route without it
CreateTypes == {Null, Str(<<"p", "e", "r", "s", "o", "n", "s">>), Str(<<"A", "c", "t", "i", "v", "i", "t", "i", "e", "s">>), Str(<<"m", "i", "s", "c">>)}

\* what a user may leave in a control of the create form
CreateEditValuesFor(field) ==
  CASE field.type = "number" -> {Null, Num(7)}
    [] field.type = "boolean" -> {Bool(TRUE), Bool(FALSE)}
    [] field.type = "json" -> {Str(<<>>), Str(<<"{", "\"", "a", "\"", ":", "1", "}">>), Str(<<"{", "\"", "a", "\"", ":">>)}
    [] field.type = "date" /\ field.dateVariant = "date" ->
         {Str(<<>>), Str(<<"1", "9", "9", "0", "-", "0", "1", "-", "0", "2">>), Str(<<"2", "0", "2", "4", "-", "1", "3", "-", "4", "5">>), Str(<<"s", "o", "o", "n">>)}
    [] field.type = "date" -> {Str(<<>>), Str(<<"2", "0", "2", "4", "-", "0", "3", "-", "0", "5", "T", "1", "0", ":", "3", "0">>), Str(<<"s", "o", "o", "n">>)}
    [] OTHER -> {Str(<<>>), Str(<<"x", " ">>)}

RawPayloads == {<<>>, <<"{", "\"", "i", "t", "e", "m", "\"", ":", "\"", "y", "\"", "}">>, <<"{">>}

\* what createEntry answers with
CreateResults == {Obj(<< <<"i", "d">> >>, <<Num(9)>>), Obj(<< <<"n", "a", "m", "e">> >>, <<Str(<<"n">>)>>), Null}

VARIABLES
  createCurrentType,       \* currentType, Null or Str
  createControls,          \* the control values, in the order of schemaFields
  createTouched,           \* form.markAllAsTouched() was called
  rawPayloadControl,
  isSubmitting,
  createErrorMessage,      \* errorMessage signal: "none" or the key of the message
  createSuccessMessage,
  createRequests,          \* the createEntry calls made: [sent, payload]
  createNavigatedTo        \* Null, or the id router.navigate was called with

createVars ==
  <<createCurrentType, createControls, createTouched, rawPayloadControl, isSubmitting,
    createErrorMessage, createSuccessMessage, createRequests, createNavigatedTo>>

\* schema signal and schemaFields
createSchema ==
  IF createCurrentType = Null THEN NoSchema ELSE getEntrySchema(createCurrentType.s)

hasSchema == Len(createSchema.fields) > 0

\* createControl(field): the initial value of the control
createControl(field) ==
  CASE field.type = "boolean" -> Bool(Truthy(field.defaultValue))
    [] field.type = "number" ->
         (IF field.defaultValue.t = "number" THEN field.defaultValue ELSE Null)
    [] field.type = "date" ->
         (IF field.defaultValue.t = "string" THEN field.defaultValue ELSE Str(<<>>))
    [] OTHER -> Str(StringOrEmpty(field.defaultValue))

\* FormGroup.reset(): a nonNullable control goes back to its initial value, the
\* number control to null
ResetControl(field) == IF field.type = "number" THEN Null ELSE createControl(field)

\* the constructor with the first emission of paramMap: loadSchema(type), or the
\* missingType error
CreateInit ==
  /\ createCurrentType \in CreateTypes
  /\ createControls = [i \in 1..Len(createSchema.fields) |-> createControl(createSchema.fields[i])]
  /\ createTouched = FALSE
  /\ rawPayloadControl = <<>>
  /\ isSubmitting = FALSE
  /\ createErrorMessage = IF createCurrentType = Null THEN "missingType" ELSE "none"
  /\ createSuccessMessage = "none"
  /\ createRequests = [sent |-> 0, payload |-> Null]
  /\ createNavigatedTo = Null

\* Validators.required on the controls of required fields
ControlInvalid(field, value) ==
  /\ field.required
  /\ \/ value = Null
     \/ value = Str(<<>>)

FormInvalid ==
  \E schemaFields \in {createSchema.fields} :
    \E i \in 1..Len(createControls) : ControlInvalid(schemaFields[i], createControls[i])

shouldSkipField(field, value) ==
  IF field.required THEN FALSE
  ELSE IF field.type = "boolean" THEN value = Null
  ELSE IF field.type = "number"
       THEN (IF value = Null THEN TRUE
             ELSE IF value.t = "string" THEN trim(value.s) = <<>>
             ELSE FALSE)
  ELSE (IF value.t = "string" THEN trim(value.s) = <<>> ELSE TRUE)

\* the outcome of a function that may throw: the value, or the key of the message
Returned(value) == [thrown |-> "none", value |-> value]
Throws(message) == [thrown |-> message, value |-> Null]

\* ToISOString is <<>> for the text Date.parse makes NaN of
transformDate(variant, value) ==
  CHOOSE out \in
    {IF normalized = <<>> THEN Throws("invalidDate")
     ELSE IF (IF variant = "none" THEN "datetime" ELSE variant) = "date"
          THEN (IF MatchesDateOnly(normalized) THEN Returned(Str(normalized))
                ELSE Throws("invalidDate"))
     ELSE CHOOSE iso \in {IF text = <<>> THEN Throws("invalidDate") ELSE Returned(Str(text)) :
                           text \in {ToISOString(normalized)}} : TRUE :
     normalized \in {trim(IF value.t = "string" THEN value.s ELSE StringOrEmpty(value))}} : TRUE

transformValue(field, value) ==
  CASE field.type = "boolean" -> Returned(Bool(Truthy(value)))
    [] field.type = "number" ->
         (IF value.t = "number" THEN Returned(value) ELSE Returned(Num(NumberOf(value).n)))
    [] field.type = "date" -> transformDate(field.dateVariant, value)
    [] field.type = "json" ->
         (IF value.t # "string" THEN Throws("invalidJsonField")
          ELSE CHOOSE out \in {IF parsed.ok THEN Returned(parsed.v)
                                ELSE Throws("invalidJsonField") :
                                parsed \in {JsonParse(value.s)}} : TRUE)
    [] OTHER ->
         (IF value.t = "string" THEN Returned(Str(trim(value.s)))
          ELSE IF value = Null THEN Returned(Str(<<>>))
          ELSE Returned(value))

\* Object.assign(payload, parsed): the own enumerable properties of parsed
RECURSIVE ObjectAssign(_, _, _)
ObjectAssign(payload, parsed, i) ==
  IF parsed.t = "object"
  THEN (IF i > Len(parsed.keys) THEN payload
        ELSE ObjectAssign(SetKey(payload, parsed.keys[i], parsed.kids[i]), parsed, i + 1))
  ELSE IF parsed.t = "array"
  THEN (IF i > Len(parsed.kids) THEN payload
        ELSE ObjectAssign(SetKey(payload, IntToString(i - 1), parsed.kids[i]), parsed, i + 1))
  ELSE IF parsed.t = "string"
  THEN (IF i > Len(parsed.s) THEN payload
        ELSE ObjectAssign(SetKey(payload, IntToString(i - 1), Str(<<parsed.s[i]>>)), parsed,
                          i + 1))
  ELSE payload

\* the loop of buildPayload over schemaFields, from field i on
RECURSIVE PayloadOfFields(_, _, _)
PayloadOfFields(schemaFields, payload, i) ==
  IF i > Len(createControls) THEN Returned(payload)
  ELSE IF shouldSkipField(schemaFields[i], createControls[i])
       THEN PayloadOfFields(schemaFields, payload, i + 1)
  ELSE CHOOSE out \in
         {IF transformed.thrown # "none" THEN transformed
          ELSE PayloadOfFields(schemaFields,
                               SetKey(payload, schemaFields[i].key, transformed.value), i + 1) :
          transformed \in {transformValue(schemaFields[i], createControls[i])}} : TRUE

createBuildPayload ==
  CHOOSE out \in
    {IF built.thrown # "none" THEN built
     ELSE IF Len(rawPayload) > 0
          THEN CHOOSE merged \in {IF parsed.ok
                                   THEN Returned(ObjectAssign(built.value, parsed.v, 1))
                                   ELSE Throws("invalidRawJson") :
                                   parsed \in {JsonParse(rawPayload)}} : TRUE
     ELSE built :
     built \in {PayloadOfFields(createSchema.fields, Obj(<<>>, <<>>), 1)},
     rawPayload \in {trim(rawPayloadControl)}} : TRUE

hasTruthyValue(value) ==
  IF value = Null THEN FALSE
  ELSE IF value.t = "string" THEN Len(trim(value.s)) > 0
  ELSE TRUE

\* does validateSchemaRequirements(payload) return true
validateSchemaRequirements(payload) ==
  \E keys \in {createSchema.requireOneOf} :
    \/ Len(keys) = 0
    \/ \E j \in 1..Len(keys) : hasTruthyValue(Prop(payload, keys[j]))

\* the user changes the value of a control, or the text of the raw JSON box
createEdit(i, value) ==
  /\ createNavigatedTo = Null
  /\ i \in 1..Len(createControls)
  /\ value # createControls[i]
  /\ createControls' = [createControls EXCEPT ![i] = value]
  /\ UNCHANGED <<createCurrentType, createTouched, rawPayloadControl, isSubmitting,
                 createErrorMessage, createSuccessMessage, createRequests, createNavigatedTo>>

createEditRaw(text) ==
  /\ createNavigatedTo = Null
  /\ text # rawPayloadControl
  /\ rawPayloadControl' = text
  /\ UNCHANGED <<createCurrentType, createControls, createTouched, isSubmitting,
                 createErrorMessage, createSuccessMessage, createRequests, createNavigatedTo>>

\* submit() up to its await
submit ==
  /\ createNavigatedTo = Null
  /\ createCurrentType # Null
  /\ ~isSubmitting
  /\ createRequests.sent < MaxCreates
  /\ IF hasSchema /\ FormInvalid
     THEN /\ createTouched' = TRUE
          /\ UNCHANGED <<isSubmitting, createErrorMessage, createSuccessMessage, createRequests>>
     ELSE \E built \in {createBuildPayload} :
            IF built.thrown # "none"
            THEN /\ createErrorMessage' = built.thrown
                 /\ UNCHANGED <<createTouched, isSubmitting, createSuccessMessage,
                                createRequests>>
            ELSE IF ~validateSchemaRequirements(built.value)
            THEN /\ createErrorMessage' = "requireOneOf"
                 /\ UNCHANGED <<createTouched, isSubmitting, createSuccessMessage,
                                createRequests>>
            ELSE IF Len(built.value.keys) = 0
            THEN /\ createErrorMessage' = "emptyPayload"
                 /\ UNCHANGED <<createTouched, isSubmitting, createSuccessMessage,
                                createRequests>>
            ELSE /\ isSubmitting' = TRUE
                 /\ createErrorMessage' = "none"
                 /\ createSuccessMessage' = "none"
                 /\ createRequests' = [sent |-> createRequests.sent + 1,
                                       payload |-> built.value]
                 /\ UNCHANGED createTouched
  /\ UNCHANGED <<createCurrentType, createControls, rawPayloadControl, createNavigatedTo>>

\* extractId(record) of this component: candidate['id'] ?? candidate['_id']
createExtractId(record) ==
  IF record.t # "object" THEN Null
  ELSE CHOOSE id \in
         {IF idValue.t = "string" /\ Len(trim(idValue.s)) > 0 THEN Str(trim(idValue.s))
          ELSE IF idValue.t = "number" THEN Str(IntToString(idValue.n))
          ELSE Null :
          idValue \in {IF Prop(record, <<"i", "d">>) # Null THEN Prop(record, <<"i", "d">>)
                        ELSE Prop(record, <<"_", "i", "d">>)}} : TRUE

\* submit() after its await: createEntry answered
createSucceeds(result) ==
  /\ isSubmitting
  /\ createSuccessMessage' = "created"
  /\ isSubmitting' = FALSE
  /\ \E entryId \in {createExtractId(result)} :
       IF entryId # Null
       THEN /\ createNavigatedTo' = entryId
            /\ UNCHANGED <<createControls, rawPayloadControl, createTouched>>
       ELSE /\ \E schemaFields \in {createSchema.fields} :
                 createControls' =
                   [i \in 1..Len(createControls) |-> ResetControl(schemaFields[i])]
            /\ createTouched' = FALSE
            /\ rawPayloadControl' = <<>>
            /\ UNCHANGED createNavigatedTo
  /\ UNCHANGED <<createCurrentType, createErrorMessage, createRequests>>

\* submit() after its await: createEntry failed
createFails ==
  /\ isSubmitting
  /\ createErrorMessage' = "createFailed"
  /\ isSubmitting' = FALSE
  /\ UNCHANGED <<createCurrentType, createControls, createTouched, rawPayloadControl,
                 createSuccessMessage, createRequests, createNavigatedTo>>
(***************************************************************************)
(* StatsService: the overview of /stats/overview kept for ttlMs.  Clock    *)
(* readings are milliseconds; time passes in steps of half the TTL.        *)
(***************************************************************************)
MaxStatsCalls == 3
MaxStatsTicks == 4

ttlMs == 20 * 60 * 1000

StatsTimeStep == ttlMs \div 2

\* Date.now() when the service is constructed
StatsStartTimes == {1000000000}

\* bodies /stats/overview answers with
StatsPayloads ==
  {Null,
   Obj(<< <<"t", "o", "t", "a", "l", "s">> >>, <<Obj(<< <<"p", "e", "r", "s", "o", "n", "s">> >>, <<Num(2)>>)>>),
   Obj(<< <<"d", "a", "t", "a">> >>, <<Obj(<< <<"r", "e", "c", "e", "n", "t">>, <<"m", "e", "t", "a", "d", "a", "t", "a">> >>,
                              <<Arr(<<>>), Obj(<< <<"g", "e", "n", "e", "r", "a", "t", "e", "d", "A", "t">> >>, <<Str(<<"x">>)>>)>>)>>),
   Obj(<< <<"e", "n", "t", "i", "t", "i", "e", "s">> >>, <<Obj(<< <<"p", "e", "r", "s", "o", "n", "s">> >>, <<Num(3)>>)>>)}

\* what the request rejects with: an HttpErrorResponse of this status, or
\* (status 0) something else
StatsErrors == {500, 0}

VARIABLES
  overviewSignal,          \* Null or the StatsOverview held
  statsErrorSignal,        \* errorSignal: Null or Num(status)
  loadingSignal,
  lastUpdatedSignal,       \* Null or Num(clock reading)
  statsNow,                \* Date.now()
  statsInFlight,           \* GET /stats/overview requests not answered yet
  statsRequests,           \* how many were issued
  statsLastCall            \* the last loadOverview call: [force, requested]

statsVars ==
  <<overviewSignal, statsErrorSignal, loadingSignal, lastUpdatedSignal, statsNow,
    statsInFlight, statsRequests, statsLastCall>>

StatsInit ==
  /\ overviewSignal = Null
  /\ statsErrorSignal = Null
  /\ loadingSignal = FALSE
  /\ lastUpdatedSignal = Null
  /\ statsNow \in StatsStartTimes
  /\ statsInFlight = 0
  /\ statsRequests = 0
  /\ statsLastCall = [called |-> FALSE, force |-> FALSE, requested |-> FALSE]

\* typeof value === 'object'
TypeofObject(value) == value.t \in {"null", "array", "object"}

\* key in record
In(key, record) == \E i \in 1..Len(record.keys) : record.keys[i] = key

looksLikeOverview(candidate) ==
  IF ~Truthy(candidate) \/ ~TypeofObject(candidate) THEN FALSE
  ELSE \/ In(<<"t", "o", "t", "a", "l", "s">>, candidate) /\ TypeofObject(Prop(candidate, <<"t", "o", "t", "a", "l", "s">>))
       \/ In(<<"a", "c", "t", "i", "v", "i", "t", "y">>, candidate) /\ TypeofObject(Prop(candidate, <<"a", "c", "t", "i", "v", "i", "t", "y">>))
       \/ In(<<"l", "a", "t", "e", "s", "t">>, candidate) /\ TypeofObject(Prop(candidate, <<"l", "a", "t", "e", "s", "t">>))
       \/ In(<<"r", "e", "c", "e", "n", "t">>, candidate) /\ Prop(candidate, <<"r", "e", "c", "e", "n", "t">>).t = "array"

\* createOverviewFromEntities where it finds nothing to convert: no entities
\* object, or one without object entries next to no recent bucket
createOverviewFromEntities(record) ==
  CHOOSE out \in
    {CASE ~Truthy(entitiesRaw) \/ ~TypeofObject(entitiesRaw) -> Null
       [] /\ Truthy(entitiesRaw) /\ TypeofObject(entitiesRaw)
          /\ \A i \in 1..Len(entitiesRaw.kids) :
               ~Truthy(entitiesRaw.kids[i]) \/ ~TypeofObject(entitiesRaw.kids[i])
          /\ ~Truthy(Prop(record, <<"r", "e", "c", "e", "n", "t">>)) \/ ~TypeofObject(Prop(record, <<"r", "e", "c", "e", "n", "t">>)) -> Null :
     entitiesRaw \in {Prop(record, <<"e", "n", "t", "i", "t", "i", "e", "s">>)}} : TRUE

nestedKeys == << <<"d", "a", "t", "a">>, <<"o", "v", "e", "r", "v", "i", "e", "w">>, <<"r", "e", "s", "u", "l", "t">>, <<"p", "a", "y", "l", "o", "a", "d">> >>

RECURSIVE tryNormalizeOverview(_)
RECURSIVE tryNestedKeys(_, _)
\* the loop over nestedKeys from its i-th key on, then createOverviewFromEntities
tryNestedKeys(record, i) ==
  IF i > Len(nestedKeys)
  THEN CHOOSE out \in {IF Truthy(converted) THEN converted ELSE Obj(<<>>, <<>>) :
                         converted \in {createOverviewFromEntities(record)}} : TRUE
  ELSE IF In(nestedKeys[i], record)
       THEN CHOOSE out \in {IF Len(nested.keys) > 0 THEN nested ELSE tryNestedKeys(record, i + 1) :
                              nested \in {tryNormalizeOverview(Prop(record, nestedKeys[i]))}} : TRUE
       ELSE tryNestedKeys(record, i + 1)

tryNormalizeOverview(payload) ==
  IF ~Truthy(payload) \/ ~TypeofObject(payload) THEN Obj(<<>>, <<>>)
  ELSE IF looksLikeOverview(payload) THEN payload
  ELSE tryNestedKeys(payload, 1)

\* { ...value } of an object, of null and of undefined
Spread(value) == IF value.t = "object" THEN value ELSE Obj(<<>>, <<>>)

normalizeOverview(payload) ==
  CHOOSE out \in {SetKey(Spread(normalized), <<"m", "e", "t", "a", "d", "a", "t", "a">>,
                         SetKey(Spread(Prop(normalized, <<"m", "e", "t", "a", "d", "a", "t", "a">>)), <<"r", "a", "w">>, payload)) :
                    normalized \in {tryNormalizeOverview(payload)}} : TRUE

hasFreshDataAtTtl(forceRefresh) ==
  /\ ~forceRefresh
  /\ Truthy(overviewSignal)
  /\ Truthy(lastUpdatedSignal)
  /\ statsNow - lastUpdatedSignal.n <= ttlMs

\* !forceRefresh && !!overview && !!lastUpdated && now - lastUpdated < ttlMs
hasFreshData(forceRefresh) ==
  /\ ~forceRefresh
  /\ Truthy(overviewSignal)
  /\ Truthy(lastUpdatedSignal)
  /\ statsNow - lastUpdatedSignal.n < ttlMs

\* loadOverview(forceRefresh) up to its await
loadOverview(forceRefresh) ==
  /\ statsRequests < MaxStatsCalls
  /\ IF hasFreshData(forceRefresh)
     THEN /\ statsLastCall' = [called |-> TRUE, force |-> forceRefresh, requested |-> FALSE]
          /\ UNCHANGED <<loadingSignal, statsErrorSignal, statsInFlight, statsRequests>>
     ELSE /\ statsLastCall' = [called |-> TRUE, force |-> forceRefresh, requested |-> TRUE]
          /\ loadingSignal' = TRUE
          /\ statsErrorSignal' = Null
          /\ statsInFlight' = statsInFlight + 1
          /\ statsRequests' = statsRequests + 1
  /\ UNCHANGED <<overviewSignal, lastUpdatedSignal, statsNow>>

\* loadOverview after its await: the request answered with this body
StatsResponds(payload) ==
  /\ statsInFlight > 0
  /\ statsInFlight' = statsInFlight - 1
  /\ overviewSignal' = normalizeOverview(payload)
  /\ lastUpdatedSignal' = Num(statsNow)
  /\ loadingSignal' = FALSE
  /\ UNCHANGED <<statsErrorSignal, statsNow, statsRequests, statsLastCall>>

\* loadOverview after its await: the request failed
StatsFails(status) ==
  /\ statsInFlight > 0
  /\ statsInFlight' = statsInFlight - 1
  /\ statsErrorSignal' = Num(status)
  /\ loadingSignal' = FALSE
  /\ UNCHANGED <<overviewSignal, lastUpdatedSignal, statsNow, statsRequests, statsLastCall>>

StatsTimePasses ==
  /\ \A start \in StatsStartTimes : statsNow < start + MaxStatsTicks * StatsTimeStep
  /\ statsNow' = statsNow + StatsTimeStep
  /\ UNCHANGED <<overviewSignal, statsErrorSignal, loadingSignal, lastUpdatedSignal,
                 statsInFlight, statsRequests, statsLastCall>>
(***************************************************************************)
(* authGuard, editorGuard, the redirect URL kept by AuthService and        *)
(* LoginComponent.submit.  AuthService.canEditEntries is not among the     *)
(* sources: what it answers for the signed-in user is an input.            *)
(***************************************************************************)
\* state.url of the navigations the guards see
GuardUrls == {<<"/", "a">>, <<"/", "b", "/", "1">>}

\* access_token of a login response, and the token found in localStorage
AccessTokens == {Str(<<"t", "1">>), Str(<<>>)}
StoredTokens == {Null, Str(<<"t", "0">>)}

VARIABLES
  tokenValue,              \* AuthService.tokenValue: Null or Str
  sessionCanEdit,          \* what canEditEntries() answers for the stored user
  redirectUrl,             \* AuthService.redirectUrl: Null or Str
  guardResult,             \* what the last guard returned: [guard, allowed, tree]
  loginIsSubmitting,       \* LoginComponent.isSubmitting
  loginErrorMessage,       \* LoginComponent.errorMessage, "none" for null
  navigatedTo,             \* the last URL handed to router.navigate / navigateByUrl
  lastConsumed             \* what the last consumeRedirectUrl() returned: [called, url]

guardVars ==
  <<tokenValue, sessionCanEdit, redirectUrl, guardResult, loginIsSubmitting,
    loginErrorMessage, navigatedTo, lastConsumed>>

GuardInit ==
  /\ tokenValue \in StoredTokens
  /\ sessionCanEdit \in BOOLEAN
  /\ redirectUrl = Null
  /\ guardResult = [guard |-> "none", allowed |-> FALSE, tree |-> <<>>]
  /\ loginIsSubmitting = FALSE
  /\ loginErrorMessage = "none"
  /\ navigatedTo = <<>>
  /\ lastConsumed = [called |-> FALSE, url |-> Null]

\* Boolean(this.tokenValue)
isAuthenticated == Truthy(tokenValue)

setRedirectUrl(url) == redirectUrl' = url

\* return true / return router.createUrlTree([...])
GuardAllows(guard) == guardResult' = [guard |-> guard, allowed |-> TRUE, tree |-> <<>>]
GuardRedirects(guard, tree) == guardResult' = [guard |-> guard, allowed |-> FALSE, tree |-> tree]

authGuardLetsEveryoneIn(url) ==
  /\ GuardAllows("authGuard")
  /\ UNCHANGED <<tokenValue, sessionCanEdit, redirectUrl, loginIsSubmitting,
                 loginErrorMessage, navigatedTo, lastConsumed>>

authGuard(url) ==
  /\ IF isAuthenticated
     THEN GuardAllows("authGuard") /\ UNCHANGED redirectUrl
     ELSE /\ IF url # <<>> THEN setRedirectUrl(Str(url)) ELSE UNCHANGED redirectUrl
          /\ GuardRedirects("authGuard", <<"/", "l", "o", "g", "i", "n">>)
  /\ UNCHANGED <<tokenValue, sessionCanEdit, loginIsSubmitting, loginErrorMessage,
                 navigatedTo, lastConsumed>>

editorGuard(url) ==
  /\ IF isAuthenticated /\ sessionCanEdit
     THEN GuardAllows("editorGuard") /\ UNCHANGED redirectUrl
     ELSE IF ~isAuthenticated
     THEN /\ IF url # <<>> THEN setRedirectUrl(Str(url)) ELSE UNCHANGED redirectUrl
          /\ GuardRedirects("editorGuard", <<"/", "l", "o", "g", "i", "n">>)
     ELSE GuardRedirects("editorGuard", <<"/">>) /\ UNCHANGED redirectUrl
  /\ UNCHANGED <<tokenValue, sessionCanEdit, loginIsSubmitting, loginErrorMessage,
                 navigatedTo, lastConsumed>>

\* consumeRedirectUrl() called on its own
consumeRedirectUrl ==
  /\ lastConsumed' = [called |-> TRUE, url |-> redirectUrl]
  /\ redirectUrl' = Null
  /\ UNCHANGED <<tokenValue, sessionCanEdit, guardResult, loginIsSubmitting,
                 loginErrorMessage, navigatedTo>>

\* LoginComponent.submit() with a valid form, up to the subscription
loginSubmit ==
  /\ ~loginIsSubmitting
  /\ loginIsSubmitting' = TRUE
  /\ loginErrorMessage' = "none"
  /\ UNCHANGED <<tokenValue, sessionCanEdit, redirectUrl, guardResult, navigatedTo,
                 lastConsumed>>

\* the login request answered: persistState in the tap of AuthService.login, then
\* next: of the subscription
LoginSucceeds(accessToken, canEdit) ==
  /\ loginIsSubmitting
  /\ tokenValue' = accessToken
  /\ sessionCanEdit' = canEdit
  /\ loginIsSubmitting' = FALSE
  /\ lastConsumed' = [called |-> TRUE, url |-> redirectUrl]
  /\ redirectUrl' = Null
  /\ navigatedTo' = IF redirectUrl # Null THEN redirectUrl.s ELSE <<"/">>
  /\ UNCHANGED <<guardResult, loginErrorMessage>>

\* mapErrorToTranslation(err)
mapErrorToTranslation(status) ==
  CASE status = 401 -> "auth.errors.invalidCredentials"
    [] status = 422 -> "auth.errors.validation"
    [] OTHER -> "auth.errors.generic"

LoginFails(status) ==
  /\ loginIsSubmitting
  /\ loginIsSubmitting' = FALSE
  /\ loginErrorMessage' = mapErrorToTranslation(status)
  /\ UNCHANGED <<tokenValue, sessionCanEdit, redirectUrl, guardResult, navigatedTo,
                 lastConsumed>>

logout ==
  /\ tokenValue' = Null
  /\ navigatedTo' = <<"/", "l", "o", "g", "i", "n">>
  /\ UNCHANGED <<sessionCanEdit, redirectUrl, guardResult, loginIsSubmitting,
                 loginErrorMessage, lastConsumed>>
(***************************************************************************)
(* Specifications.  Each one runs one part of the application; the state   *)
(* of the other parts stays as constructed.                                *)
(***************************************************************************)
vars == <<detailVars, serviceVars, componentVars, relationsVars, lookupVars, apiVars, createVars, statsVars, deleteVars, guardVars>>

\* a step of one part leaves the other parts alone
DetailOnly == UNCHANGED <<serviceVars, componentVars, relationsVars, lookupVars, apiVars, createVars, statsVars, deleteVars, guardVars>>
ServiceOnly == UNCHANGED <<detailVars, componentVars, relationsVars, lookupVars, apiVars, createVars, statsVars, deleteVars, guardVars>>
ComponentOnly == UNCHANGED <<detailVars, serviceVars, relationsVars, lookupVars, apiVars, createVars, statsVars, deleteVars, guardVars>>
RelationsOnly == UNCHANGED <<detailVars, serviceVars, componentVars, lookupVars, apiVars, createVars, statsVars, deleteVars, guardVars>>
LookupOnly == UNCHANGED <<detailVars, serviceVars, componentVars, relationsVars, apiVars, createVars, statsVars, deleteVars, guardVars>>
ApiOnly == UNCHANGED <<detailVars, serviceVars, componentVars, relationsVars, lookupVars, createVars, statsVars, deleteVars, guardVars>>
CreateOnly == UNCHANGED <<detailVars, serviceVars, componentVars, relationsVars, lookupVars, apiVars, statsVars, deleteVars, guardVars>>
StatsOnly == UNCHANGED <<detailVars, serviceVars, componentVars, relationsVars, lookupVars, apiVars, createVars, deleteVars, guardVars>>
GuardOnly == UNCHANGED <<detailVars, serviceVars, componentVars, relationsVars, lookupVars, apiVars, createVars, statsVars, deleteVars>>
\* the delete handlers write the messages of the detail page themselves
DeleteFrame ==
  UNCHANGED <<serviceVars, componentVars, relationsVars, lookupVars, apiVars, createVars, statsVars,
              guardVars>>

\* a picker, the create form and the API gate as constructed, for one kind of
\* picker, a route without type and a signed-out user
LookupIdle == LookupInit /\ lookupKind = "persons"
CreateIdle == CreateInit /\ createCurrentType = Null
ApiIdle ==
  /\ ApiInit
  /\ permissions = [canEditEntries |-> FALSE, canDeleteEntries |-> FALSE, canWrite |-> FALSE]
  /\ baseUrl = <<"h", "t", "t", "p", ":", "/", "/", "h">>

\* AuthService as constructed without a stored session
GuardIdle == GuardInit /\ tokenValue = Null /\ ~sessionCanEdit

\* the parts around EntryDetailComponent as constructed
OthersInit ==
  /\ ServiceInit
  /\ ComponentInit
  /\ RelationsInit
  /\ LookupIdle
  /\ ApiIdle
  /\ CreateIdle
  /\ StatsInit
  /\ DeleteInit
  /\ GuardIdle

\* EntryDetailComponent with form edits, loads and saves
Init == DetailInit /\ OthersInit

Next ==
  \/ (\E r \in Routes : RouteChange(r)) /\ DetailOnly
  \/ refresh /\ DetailOnly
  \/ (\E i \in 1..Len(pending), record \in ServerRecords : LoadSucceeds(i, record))
       /\ DetailOnly
  \/ (\E i \in 1..Len(pending), status \in {200, 403, 500} : LoadFails(i, status))
       /\ DetailOnly
  \/ (\E i \in 1..Len(form) : \E v \in EditValuesFor(fields[i].inputType) : EditControl(i, v))
       /\ DetailOnly
  \/ (\E level \in VisibilityLevels : EditVisibility(level)) /\ DetailOnly
  \/ save /\ DetailOnly
  \/ (\E i \in 1..Len(pending), updated \in ServerRecords : SaveSucceeds(i, updated))
       /\ DetailOnly
  \/ (\E i \in 1..Len(pending) : SaveSucceedsEmpty(i)) /\ DetailOnly
  \/ (\E i \in 1..Len(pending) : SaveFails(i)) /\ DetailOnly

Spec == Init /\ [][Next]_vars

\* the form builder, the codec and the differ on their own: every record of
\* Records is loaded into the form, then edited
CodecInit ==
  /\ auth \in AuthProfiles
  /\ route \in Routes
  /\ \E record \in Records :
       /\ entry = [loaded |-> TRUE, rec |-> record]
       /\ form = BuildControls(record, auth.canEdit)
       /\ fields = BuildFieldConfigs(record)
       /\ visibilityControl = extractVisibility(record)
       /\ currentVisibilityLevel = extractVisibility(record)
  /\ formDirty = FALSE
  /\ visibilityDirty = FALSE
  /\ isLoading = FALSE
  /\ isSaving = FALSE
  /\ errorMessage = "none"
  /\ successMessage = "none"
  /\ pending = <<>>
  /\ OthersInit

CodecNext ==
  \/ (\E i \in 1..Len(form) : \E v \in EditValuesFor(fields[i].inputType) : EditControl(i, v))
       /\ DetailOnly
  \/ (\E level \in VisibilityLevels : EditVisibility(level)) /\ DetailOnly

SpecCodec == CodecInit /\ [][CodecNext]_vars

\* the detail page as constructed, for a fixed signed-in user
DetailIdle == DetailInit /\ ~auth.canEdit

\* PersonDossierService.fetchDossier under overlapping callers
DossierServiceInit == DetailIdle /\ OthersInit

DossierServiceNext ==
  \/ (\E call \in ConcurrentCalls, force \in BOOLEAN :
        fetchDossier(call.personId, call.limits, force)) /\ ServiceOnly
  \/ (\E personId \in {Null, Str(<<"4">>)} : clearCache(personId)) /\ ServiceOnly
  \/ (\E i \in 1..Len(inflight), response \in DossierResponses : DossierResponds(i, response))
       /\ ServiceOnly
  \/ (\E i \in 1..Len(inflight) : RequestFails(i)) /\ ServiceOnly

SpecDossierService == DossierServiceInit /\ [][DossierServiceNext]_vars

\* both caches of PersonDossierService under callers that wait for each answer
DossierCachesNext ==
  \/ /\ inflight = <<>>
     /\ \E call \in DossierCalls, force \in BOOLEAN :
          fetchDossier(call.personId, call.limits, force)
     /\ ServiceOnly
  \/ /\ inflight = <<>>
     /\ \E call \in PdfCalls, force \in BOOLEAN :
          downloadPdf(call.personId, call.limits, force)
     /\ ServiceOnly
  \/ (\E personId \in ClearArgs : clearCache(personId)) /\ ServiceOnly
  \/ (\E i \in 1..Len(inflight), response \in FillResponses : DossierResponds(i, response))
       /\ ServiceOnly
  \/ (\E i \in 1..Len(inflight), response \in PdfResponses : PdfResponds(i, response))
       /\ ServiceOnly
  \/ (\E i \in 1..Len(inflight) : RequestFails(i)) /\ ServiceOnly

SpecDossierCaches == DossierServiceInit /\ [][DossierCachesNext]_vars

\* PersonDossierComponent between its input, its buttons and the answers
DossierComponentNext ==
  \/ (\E id \in PersonInputs : componentNgOnChanges(id)) /\ ComponentOnly
  \/ componentRefresh /\ ComponentOnly
  \/ (\E section \in EditedSections, value \in LimitChoices : updateLimit(section, value))
       /\ ComponentOnly
  \/ (\E request \in subscriptions, meta \in BOOLEAN : fetchNext(request, meta))
       /\ ComponentOnly
  \/ (\E request \in subscriptions, error \in FetchErrors : fetchError(request, error))
       /\ ComponentOnly
  \/ componentDownloadPdf /\ ComponentOnly
  \/ pdfDownloaded /\ ComponentOnly
  \/ (\E error \in FetchErrors : pdfDownloadFails(error)) /\ ComponentOnly

SpecDossierComponent == DossierServiceInit /\ [][DossierComponentNext]_vars

\* EntryDetailRelationsComponent between person changes and settled loads
RelationsNext ==
  \/ (\E personId \in RelationIds : relationsNgOnChanges(personId)) /\ RelationsOnly
  \/ (\E i \in 1..Len(loads), profilesResult \in ProfilesResults,
         notesResult \in NotesResults, activitiesResult \in ActivitiesResults :
        loadPersonRelationsSettled(i, profilesResult, notesResult, activitiesResult))
       /\ RelationsOnly

SpecRelations == DossierServiceInit /\ [][RelationsNext]_vars

\* one lookup picker between keystrokes, the clock and its answers
LookupSpecInit ==
  /\ DetailIdle
  /\ ServiceInit
  /\ ComponentInit
  /\ RelationsInit
  /\ LookupInit
  /\ ApiIdle
  /\ CreateIdle
  /\ StatsInit
  /\ DeleteInit
  /\ GuardIdle

LookupNext ==
  \/ (\E value \in TypedValues : TypeText(value)) /\ LookupOnly
  \/ TimePasses /\ LookupOnly
  \/ DebounceFires /\ LookupOnly
  \/ openSearch /\ LookupOnly
  \/ closeSearch /\ LookupOnly
  \/ clearSelection /\ LookupOnly
  \/ (\E term \in lookupInFlight : SearchSettles(term)) /\ LookupOnly

SpecLookup == LookupSpecInit /\ [][LookupNext]_vars

\* ApiService.request called with every method under every set of permissions
ApiSpecInit ==
  /\ DetailIdle
  /\ ServiceInit
  /\ ComponentInit
  /\ RelationsInit
  /\ LookupIdle
  /\ ApiInit
  /\ CreateIdle
  /\ StatsInit
  /\ DeleteInit
  /\ GuardIdle

ApiNext ==
  \/ (\E method \in MethodArguments, endpoint \in Endpoints : apiRequest(method, endpoint))
       /\ ApiOnly
  \/ (\E method \in HttpMethods, endpoint \in Endpoints :
        requestWithCanWrite(method, endpoint)) /\ ApiOnly
  \/ (\E answers \in Permissions : PermissionsChange(answers)) /\ ApiOnly

SpecApi == ApiSpecInit /\ [][ApiNext]_vars

\* the two forms under text their fields do not accept: the router shows either
\* the detail page of a loaded record or the create form
ValidationRecords ==
  {<<Field(<<"i", "d">>, Num(1)), Field(<<"d", "a", "t", "a">>, Obj(<< <<"a">> >>, <<Arr(<<Num(1), Null>>)>>)),
     Field(<<"d", "o", "b">>, Str(<<"1", "9", "9", "0", "-", "0", "1", "-", "0", "2">>))>>}

ValidationEditValuesFor(inputType) ==
  CASE inputType = "json" -> {Str(<<"{", "\"", "a", "\"", ":">>), Str(<<"[", "2", "]">>)}
    [] inputType = "date" -> {Str(<<"1", "9", "9", "0", "-", "0", "1", "-", "0", "3">>), Str(<<"2", "0", "2", "4", "-", "1", "3", "-", "4", "5">>), Str(<<"s", "o", "o", "n">>)}
    [] OTHER -> EditValuesFor(inputType)

DetailLoaded ==
  /\ auth \in AuthProfiles
  /\ auth.canEdit /\ ~auth.canDelete
  /\ route \in Routes
  /\ route.type = "persons"
  /\ \E record \in ValidationRecords :
       /\ entry = [loaded |-> TRUE, rec |-> record]
       /\ form = BuildControls(record, auth.canEdit)
       /\ fields = BuildFieldConfigs(record)
       /\ visibilityControl = extractVisibility(record)
       /\ currentVisibilityLevel = extractVisibility(record)
  /\ formDirty = FALSE
  /\ visibilityDirty = FALSE
  /\ isLoading = FALSE
  /\ isSaving = FALSE
  /\ errorMessage = "none"
  /\ successMessage = "none"
  /\ pending = <<>>

ValidationInit ==
  /\ ServiceInit
  /\ ComponentInit
  /\ RelationsInit
  /\ LookupIdle
  /\ ApiIdle
  /\ StatsInit
  /\ DeleteInit
  /\ GuardIdle
  /\ \/ DetailLoaded /\ CreateIdle
     \/ DetailIdle /\ CreateInit /\ createCurrentType # Null

ValidationNext ==
  \/ (\E i \in 1..Len(form) : \E v \in ValidationEditValuesFor(fields[i].inputType) :
        EditControl(i, v)) /\ DetailOnly
  \/ save /\ DetailOnly
  \/ (\E i \in 1..Len(pending), updated \in ValidationRecords : SaveSucceeds(i, updated))
       /\ DetailOnly
  \/ (\E i \in 1..Len(pending) : SaveFails(i)) /\ DetailOnly
  \/ (\E i \in 1..Len(createControls) :
        \E value \in CreateEditValuesFor(createSchema.fields[i]) : createEdit(i, value))
       /\ CreateOnly
  \/ (\E text \in RawPayloads : createEditRaw(text)) /\ CreateOnly
  \/ submit /\ CreateOnly
  \/ (\E result \in CreateResults : createSucceeds(result)) /\ CreateOnly
  \/ createFails /\ CreateOnly

SpecValidation == ValidationInit /\ [][ValidationNext]_vars

\* StatsService.loadOverview between calls, the clock and the answers
StatsNext ==
  \/ (\E forceRefresh \in BOOLEAN : loadOverview(forceRefresh)) /\ StatsOnly
  \/ (\E payload \in StatsPayloads : StatsResponds(payload)) /\ StatsOnly
  \/ (\E status \in StatsErrors : StatsFails(status)) /\ StatsOnly
  \/ StatsTimePasses /\ StatsOnly

SpecStats == DossierServiceInit /\ [][StatsNext]_vars

\* EntryDetailComponent between route changes, refreshes and the answers to its
\* loads, against a backend that answers a GET with the record of the requested
\* type and id
ServedRecord(r) ==
  IF r.type = "persons"
  THEN <<Field(<<"i", "d">>, Num(1)), Field(<<"s", "t", "a", "t", "u", "s">>, Str(<<"a", "c", "t", "i", "v", "e">>)), Field(<<"O", "w", "n", "e", "r", "_", "I", "d">>, Num(5)),
         Field(<<"v", "i", "s", "i", "b", "i", "l", "i", "t", "y", "_", "l", "e", "v", "e", "l">>, Str(<<"a", "d", "m", "i", "n">>))>>
  ELSE <<Field(<<"e", "x", "t", "e", "r", "n", "a", "l", "_", "i", "d">>, Str(<<"X", "1">>)),
         Field(<<"d", "a", "t", "a">>, Obj(<< <<"a">> >>, <<Arr(<<Num(1), Null>>)>>))>>

RoutingNext ==
  \/ (\E r \in Routes : RouteChange(r)) /\ DetailOnly
  \/ refresh /\ DetailOnly
  \/ (\E i \in 1..Len(pending) : LoadSucceeds(i, ServedRecord(pending[i]))) /\ DetailOnly
  \/ (\E i \in 1..Len(pending), status \in {200, 403, 500} : LoadFails(i, status))
       /\ DetailOnly

SpecRouting == Init /\ [][RoutingNext]_vars

\* EntryDetailComponent when save() is only called while hasChanges() is true
GatedSaveNext ==
  \/ (\E r \in Routes : RouteChange(r)) /\ DetailOnly
  \/ refresh /\ DetailOnly
  \/ (\E i \in 1..Len(pending), record \in ServerRecords : LoadSucceeds(i, record))
       /\ DetailOnly
  \/ (\E i \in 1..Len(form) : \E v \in EditValuesFor(fields[i].inputType) : EditControl(i, v))
       /\ DetailOnly
  \/ (\E level \in VisibilityLevels : EditVisibility(level)) /\ DetailOnly
  \/ (hasChanges /\ save) /\ DetailOnly
  \/ (\E i \in 1..Len(pending), updated \in ServerRecords : SaveSucceeds(i, updated))
       /\ DetailOnly
  \/ (\E i \in 1..Len(pending) : SaveFails(i)) /\ DetailOnly

SpecGatedSave == Init /\ [][GatedSaveNext]_vars

\* the delete dialog of EntryDetailComponent next to route changes and loads
DeleteNext ==
  \/ (\E r \in Routes : RouteChange(r)) /\ DetailOnly
  \/ (\E i \in 1..Len(pending) : LoadSucceeds(i, ServedRecord(pending[i]))) /\ DetailOnly
  \/ openDeleteDialog /\ DeleteFrame
  \/ DismissDeleteDialog /\ DeleteFrame
  \/ handleDeleteConfirmed /\ DeleteFrame
  \/ DeleteSucceeds /\ DeleteFrame
  \/ (\E ok \in BOOLEAN : NavigationEnds(ok)) /\ DeleteFrame
  \/ DeleteFails /\ DeleteFrame

SpecDelete == Init /\ [][DeleteNext]_vars

\* the route guards, the login form and logout
GuardSpecInit ==
  /\ DetailIdle
  /\ ServiceInit
  /\ ComponentInit
  /\ RelationsInit
  /\ LookupIdle
  /\ ApiIdle
  /\ CreateIdle
  /\ StatsInit
  /\ DeleteInit
  /\ GuardInit

GuardNext ==
  \/ (\E url \in GuardUrls : authGuard(url)) /\ GuardOnly
  \/ (\E url \in GuardUrls : editorGuard(url)) /\ GuardOnly
  \/ consumeRedirectUrl /\ GuardOnly
  \/ loginSubmit /\ GuardOnly
  \/ (\E accessToken \in AccessTokens, canEdit \in BOOLEAN : LoginSucceeds(accessToken, canEdit))
       /\ GuardOnly
  \/ (\E status \in {401, 422, 500} : LoginFails(status)) /\ GuardOnly
  \/ logout /\ GuardOnly

SpecGuards == GuardSpecInit /\ [][GuardNext]_vars
(***************************************************************************)
(* Properties                                                              *)
(***************************************************************************)
\* the controls whose value is no longer the one rebuildForm gave them
ChangedControls ==
  {i \in 1..Len(form) : form[i].value # BuildControls(entry.rec, canEditEntries)[i].value}

EndsInId(key) == endsWith(toLowerCase(key), <<"i", "d">>) /\ toLowerCase(key) # <<"m", "e", "t", "a", "d", "a", "t", "a">>

PatchAdded ==
  /\ Len(pending') = Len(pending) + 1
  /\ pending'[Len(pending')].method = "PATCH"

\* C2: every PATCH save() sends carries at least one key, and when the change-set
\* (field differences plus a visibility change) is empty save() sends nothing,
\* reports 'no changes' and leaves the form pristine
C2_NoPatchWithoutChanges ==
  [][/\ PatchAdded => /\ Len(SavePayload) > 0
                      /\ pending'[Len(pending')].bodyKeys = Len(SavePayload)
     /\ (successMessage' = "noChanges" /\ successMessage # "noChanges")
          => /\ Len(SavePayload) = 0
             /\ pending' = pending
             /\ ~formDirty' /\ ~visibilityDirty']_vars

C2_Witness ==
  /\ entry.loaded
  /\ successMessage = "noChanges"
  /\ ChangedControls # {}
  /\ Len(SavePayload) = 0
  /\ ~formDirty
  /\ pending = <<>>

Sent == inflight'[Len(inflight')]

\* the key fetchDossier computes for a call
KeyOf(call) == buildCacheKey(normalizePersonId(call.personId).s, resolveLimits(call.limits))

\* C5: a 200 response with a body overwrites the entry of the request's key with
\* {data, etag} and returns fromCache = false; a 304 response to a request that
\* found an entry returns that entry's data with fromCache = true and writes nothing
C5_CacheLifecycle ==
  [][\A i \in 1..Len(inflight), response \in DossierResponses :
       DossierResponds(i, response) =>
         /\ (response.status = 200 /\ response.body # NoBody) =>
              /\ inflight[i].cacheKey \in DOMAIN cache'
              /\ cache'[inflight[i].cacheKey].data = response.body
              /\ cache'[inflight[i].cacheKey].etag = response.etag
              /\ \A key \in (DOMAIN cache) \ {inflight[i].cacheKey} :
                   key \in DOMAIN cache' /\ cache'[key] = cache[key]
              /\ lastResult'.kind = "snapshot"
              /\ lastResult'.data = response.body
              /\ lastResult'.etag = response.etag
              /\ ~lastResult'.fromCache
         /\ (response.status = 304 /\ inflight[i].cached.present) =>
              /\ cache' = cache
              /\ lastResult'.kind = "snapshot"
              /\ lastResult'.data = inflight[i].cached.data
              /\ lastResult'.fromCache]_vars

C5_Witness ==
  /\ lastResult.kind = "snapshot"
  /\ lastResult.fromCache
  /\ lastResult.data = "d2"
  /\ \E key \in DOMAIN cache : cache[key].data = "d1"

\* C6 as claimed: a request carries If-None-Match with the cached ETag exactly when
\* an entry exists for its key and force is false
C6_PreconditionWheneverEntryExists ==
  [][\A call \in ConcurrentCalls, force \in BOOLEAN :
       (fetchDossier(call.personId, call.limits, force) /\ normalizePersonId(call.personId) # Null) =>
         IF KeyOf(call) \in DOMAIN cache /\ ~force
         THEN Sent.headers.ifNoneMatch # Null
              /\ Sent.headers.ifNoneMatch = cache[KeyOf(call)].etag
         ELSE Sent.headers.ifNoneMatch = Null]_vars

\* C6: a request carries If-None-Match with the cached ETag exactly when an entry
\* with a non-empty ETag exists for its key and force is false; every other request
\* (no entry, an entry without ETag, force) carries no precondition
C6_PreconditionWheneverEtagCached ==
  [][\A call \in ConcurrentCalls, force \in BOOLEAN :
       (fetchDossier(call.personId, call.limits, force) /\ normalizePersonId(call.personId) # Null) =>
         IF KeyOf(call) \in DOMAIN cache /\ Truthy(cache[KeyOf(call)].etag) /\ ~force
         THEN Sent.headers.ifNoneMatch # Null
              /\ Sent.headers.ifNoneMatch = cache[KeyOf(call)].etag
         ELSE Sent.headers.ifNoneMatch = Null]_vars

C6_Witness ==
  \E i, j \in 1..Len(inflight) :
    /\ inflight[i].cached.present
    /\ inflight[i].headers.ifNoneMatch = Str(<<"W", "/", "1">>)
    /\ inflight[j].cached.present
    /\ inflight[j].cached.etag # Null
    /\ inflight[j].headers.ifNoneMatch = Null

\* the id a cache key was built from: the text before its last "::"
\* (before the "::pdf" suffix is looked at, that suffix is taken off)
LastSeparator(key) ==
  CHOOSE i \in 1..(Len(key) - 1) :
    /\ SubSeq(key, i, i + 1) = <<":", ":">>
    /\ \A j \in (i + 1)..(Len(key) - 1) : SubSeq(key, j, j + 1) # <<":", ":">>
OwnerOf(key) == SubSeq(key, 1, LastSeparator(key) - 1)
PdfOwnerOf(key) == OwnerOf(SubSeq(key, 1, Len(key) - 5))

\* C7 clearCache() empties both caches; clearCache(id) removes the entries of
\* that id, under every limit combination, from both caches and leaves the
\* entries of every other id as they are
C7_ClearLeavesEveryOtherId ==
  [][\A personId \in ClearArgs :
       clearCache(personId) =>
         /\ personId = Null => (cache' = EmptyMap /\ pdfCache' = EmptyMap)
         /\ normalizePersonId(personId) # Null =>
              /\ \A key \in DOMAIN cache :
                   IF OwnerOf(key) = normalizePersonId(personId).s
                   THEN key \notin DOMAIN cache'
                   ELSE key \in DOMAIN cache' /\ cache'[key] = cache[key]
              /\ \A key \in DOMAIN pdfCache :
                   IF PdfOwnerOf(key) = normalizePersonId(personId).s
                   THEN key \notin DOMAIN pdfCache'
                   ELSE key \in DOMAIN pdfCache' /\ pdfCache'[key] = pdfCache[key]]_vars

\* is the entry of this owner dropped when id is cleared
ClearedWith(owner, id) == owner = id \/ startsWith(owner, id \o <<":", ":">>)

\* what clearCache(id) does instead: it removes from both caches the entries of
\* that id and of every id that starts with id followed by "::", and leaves
\* every other entry, such as those of 42 when 4 is cleared
ClearRemovesIdAndSeparatorPrefixed ==
  [][\A personId \in ClearArgs :
       clearCache(personId) =>
         /\ ~Truthy(personId) => (cache' = EmptyMap /\ pdfCache' = EmptyMap)
         /\ normalizePersonId(personId) # Null =>
              /\ DOMAIN cache' \subseteq DOMAIN cache
              /\ DOMAIN pdfCache' \subseteq DOMAIN pdfCache
              /\ \A key \in DOMAIN cache :
                   IF ClearedWith(OwnerOf(key), normalizePersonId(personId).s)
                   THEN key \notin DOMAIN cache'
                   ELSE key \in DOMAIN cache' /\ cache'[key] = cache[key]
              /\ \A key \in DOMAIN pdfCache :
                   IF ClearedWith(PdfOwnerOf(key), normalizePersonId(personId).s)
                   THEN key \notin DOMAIN pdfCache'
                   ELSE key \in DOMAIN pdfCache' /\ pdfCache'[key] = pdfCache[key]]_vars

\* clearCache("4") has run and the entries of 42 are still in both caches
C7_Witness ==
  /\ lastResult.kind = "cleared"
  /\ lastResult.arg = Str(<<"4">>)
  /\ DOMAIN cache = {<<"4", "2", ":", ":", "5", ":", "5", ":", "5">>}
  /\ DOMAIN pdfCache = {<<"4", "2", ":", ":", "5", ":", "5", ":", "1", "0", ":", ":", "p", "d", "f">>}

\* C8: a response without body to a request that found no entry makes the fetch
\* fail with an error and leaves both caches as they were, for the dossier and
\* for the PDF
C8_EmptyResponseFails ==
  [][/\ \A i \in 1..Len(inflight), response \in FillResponses :
          (DossierResponds(i, response) /\ response.body = NoBody /\ ~inflight[i].cached.present) =>
            /\ lastResult'.kind = "error"
            /\ lastResult'.message = "Dossier payload is empty."
            /\ cache' = cache
            /\ pdfCache' = pdfCache
     /\ \A i \in 1..Len(inflight), response \in PdfResponses :
          (PdfResponds(i, response) /\ response.body = NoBody /\ ~inflight[i].cached.present) =>
            /\ lastResult'.kind = "error"
            /\ lastResult'.message = "PDF payload is empty."
            /\ cache' = cache
            /\ pdfCache' = pdfCache]_vars

C8_Witness ==
  /\ lastResult.kind = "error"
  /\ lastResult.message = "PDF payload is empty."
  /\ pdfCache = EmptyMap
  /\ cache # EmptyMap

\* C9 last-request-wins in PersonDossierComponent: when the answer of a fetch
\* arrives (its subscription ends) and the fetch is not the most recently
\* issued one, the displayed dossier, the error message, the limits and the
\* loading flag all stay as they are
C9_LastRequestWins ==
  [][\A request \in subscriptions :
       (request \notin subscriptions' /\ request.token # requestToken)
         => /\ dossierState' = dossierState
            /\ dossierErrorMessage' = dossierErrorMessage
            /\ limits' = limits
            /\ dossierIsLoading' = dossierIsLoading]_vars

\* a superseded fetch has answered and was ignored while the newest one is
\* still out and the component still shows it as loading
C9_Witness ==
  /\ lastResponse = "ignored"
  /\ dossierIsLoading
  /\ \E request \in subscriptions : request.token = requestToken

\* the messages of the rejected ones among three results, in request order
FailedMessages(results) ==
  (IF results[1].status = "rejected"
   THEN <<relationsDescribeError(results[1].reason)>> ELSE <<>>)
  \o (IF results[2].status = "rejected"
      THEN <<relationsDescribeError(results[2].reason)>> ELSE <<>>)
  \o (IF results[3].status = "rejected"
      THEN <<relationsDescribeError(results[3].reason)>> ELSE <<>>)

\* C10 partial-failure tolerance of loadPersonRelations: when a call settles,
\* for every combination of the three outcomes each list whose request
\* succeeded holds its fresh result, each list whose request failed keeps its
\* previous contents, relationsError is the failed requests' messages joined
\* with " | " and is null exactly when all three succeeded, and
\* isRelationsLoading is false
C10_PartialFailureTolerance ==
  [][Len(loads') < Len(loads) =>
       /\ relatedProfiles' = IF settled'[1].status = "fulfilled"
                             THEN normalizeProfiles(settled'[1].value) ELSE relatedProfiles
       /\ relatedNotes' = IF settled'[2].status = "fulfilled"
                          THEN normalizeNotes(settled'[2].value) ELSE relatedNotes
       /\ relatedActivities' = IF settled'[3].status = "fulfilled"
                               THEN normalizeActivities(settled'[3].value)
                               ELSE relatedActivities
       /\ (relationsError' = Null) <=> (\A k \in 1..3 : settled'[k].status = "fulfilled")
       /\ relationsError' # Null =>
            relationsError' = Str(Join(FailedMessages(settled'), <<" ", "|", " ">>))
       /\ isRelationsLoading' = FALSE]_vars

\* a call has settled with the profiles request failed and the activities
\* request answered: the profiles of the call before are still listed, the
\* activities are the fresh (capped) ones, and the error is reported
C10_Witness ==
  /\ settled # <<>>
  /\ settled[1].status = "rejected"
  /\ settled[3].status = "fulfilled"
  /\ relatedProfiles # <<>>
  /\ relatedActivities = normalizeActivities(settled[3].value)
  /\ Len(relatedActivities) = 25
  /\ relationsError # Null
  /\ ~isRelationsLoading

\* the step sends a lookup request that comes from the typed value
TypedRequestAdded ==
  /\ lookupRequests'.sent = lookupRequests.sent + 1
  /\ lookupRequests'.origin = "typed"

\* C11 debounced lookups: a keystroke sends nothing by itself; a request for a
\* typed value is sent only when the input has stayed unchanged for the quiet
\* period, it asks for that value (trimmed), it is the only request of that
\* quiet period (the timer is spent), and a debounced value equal to the one
\* before it sends none
C11_DebouncedLookups ==
  [][/\ lookupRequests'.sent <= lookupRequests.sent + 1
     /\ keystrokes' # keystrokes => lookupRequests' = lookupRequests
     /\ TypedRequestAdded =>
          /\ debounce.armed
          /\ debounce.elapsed >= debounceMs
          /\ lookupRequests'.term = trim(debounce.value)
          /\ ~debounce'.armed
          /\ ~(distinct.seen /\ distinct.value = debounce.value)]_vars

\* three keystrokes have led to one request for a typed value, although the
\* picker was open for each of them
C11_Witness ==
  /\ keystrokes >= 3
  /\ ~debounce.armed
  /\ distinct.seen
  /\ lookupIsOpen
  /\ lookupRequests.typed = 1

\* C12 client-side permission gate: a call of ApiService.request with DELETE
\* and no delete permission, or with a method other than GET and DELETE and no
\* edit permission, throws and nothing reaches HttpClient; a GET always reaches
\* it.  The copy that asks canWrite() throws for every method but GET when
\* canWrite() is false, and lets every GET through
C12_PermissionGate ==
  [][\A method \in MethodArguments, endpoint \in Endpoints :
       /\ apiRequest(method, endpoint) =>
            /\ (toUpperCase(method) = <<"D", "E", "L", "E", "T", "E">> /\ ~permissions.canDeleteEntries)
                 => (apiOutcome' = "thrown" /\ httpRequests' = httpRequests)
            /\ (toUpperCase(method) \notin {<<"G", "E", "T">>, <<"D", "E", "L", "E", "T", "E">>} /\ ~permissions.canEditEntries)
                 => (apiOutcome' = "thrown" /\ httpRequests' = httpRequests)
            /\ toUpperCase(method) = <<"G", "E", "T">>
                 => (apiOutcome' = "sent" /\ httpRequests'.sent = httpRequests.sent + 1)
       /\ (method \in HttpMethods /\ requestWithCanWrite(method, endpoint)) =>
            /\ (method # <<"G", "E", "T">> /\ ~permissions.canWrite)
                 => (apiOutcome' = "thrown" /\ httpRequests' = httpRequests)
            /\ method = <<"G", "E", "T">>
                 => (apiOutcome' = "sent" /\ httpRequests'.sent = httpRequests.sent + 1)]_vars

\* a user without any permission has had a GET sent and a later call refused
C12_Witness ==
  /\ apiOutcome = "thrown"
  /\ httpRequests.sent = 1
  /\ httpRequests.method = <<"G", "E", "T">>
  /\ ~permissions.canEditEntries
  /\ ~permissions.canDeleteEntries
  /\ ~permissions.canWrite

\* the value the loaded record holds under the key of field i
OriginalOf(i) == Get(entry.rec, fields[i].key)

\* does the text in the control of field i parse as JSON
ControlParses(i) == JsonParse(trim(stringifyValue(form[i].value))).ok

\* C13 JSON round trip: for every value v a json-typed field holds, the editable
\* text of v turned back into a wire value with original v is equal to v
C13_JsonRoundTrip ==
  \A i \in 1..Len(fields) :
    (entry.loaded /\ fields[i].inputType = "json")
      => prepareValueForPayload(prepareControlValue(OriginalOf(i), "json"), fields[i],
                                OriginalOf(i)) = OriginalOf(i)

\* the round trip holds for every value that is not a string of JSON text
RoundTripUnlessJsonText ==
  \A i \in 1..Len(fields) :
    (/\ entry.loaded
     /\ fields[i].inputType = "json"
     /\ ~(OriginalOf(i).t = "string" /\ JsonParse(trim(OriginalOf(i).s)).ok))
      => prepareValueForPayload(prepareControlValue(OriginalOf(i), "json"), fields[i],
                                OriginalOf(i)) = OriginalOf(i)

\* a json-typed field holds the string "q" in quotes, and its round trip is the
\* string q without them
C13_Witness ==
  /\ entry.loaded
  /\ \E i \in 1..Len(fields) :
       /\ fields[i].inputType = "json"
       /\ OriginalOf(i) = Str(<<"\"", "q", "\"">>)
       /\ prepareValueForPayload(prepareControlValue(OriginalOf(i), "json"), fields[i],
                                 OriginalOf(i)) = Str(<<"q">>)

\* C14 as stated: when the text of a json-typed field does not parse as JSON,
\* its wire value is the field's original value, in the change-set too
C14_UnparsableTextFallsBack ==
  \A i \in 1..Len(fields) :
    (entry.loaded /\ fields[i].inputType = "json" /\ ~ControlParses(i))
      => /\ prepareValueForPayload(form[i].value, fields[i], OriginalOf(i)) = OriginalOf(i)
         /\ \A j \in 1..Len(buildPayload) :
              buildPayload[j].k = fields[i].key => buildPayload[j].v = OriginalOf(i)

\* C14 amended: when the text of a json-typed field is not blank and does not
\* parse as JSON, its wire value is the field's original value, in the
\* change-set too; a blank text gives the empty string
C14_NonBlankUnparsableTextFallsBack ==
  \A i \in 1..Len(fields) :
    (entry.loaded /\ fields[i].inputType = "json" /\ ~ControlParses(i))
      => \E wire \in {IF trim(stringifyValue(form[i].value)) = <<>> THEN Str(<<>>)
                      ELSE OriginalOf(i)} :
           /\ prepareValueForPayload(form[i].value, fields[i], OriginalOf(i)) = wire
           /\ \A j \in 1..Len(buildPayload) :
                buildPayload[j].k = fields[i].key => buildPayload[j].v = wire

\* half an object was typed over the object of an editable json-typed field, and
\* the change-set holds the object
C14_Witness ==
  /\ entry.loaded
  /\ \E i \in 1..Len(fields) :
       /\ fields[i].inputType = "json"
       /\ form[i].value = Str(<<"{", "\"", "a", "\"", ":">>)
       /\ OriginalOf(i).t = "object"
       /\ buildPayload = <<Field(fields[i].key, OriginalOf(i))>>

\* text that is not blank and is not JSON, and text that is not blank and is not a date
MalformedJson(text) == trim(text) # <<>> /\ ~JsonParse(trim(text)).ok
InvalidDate(text) == trim(text) # <<>> /\ DateParse(trim(text)).nan

\* the create form holds malformed JSON in a JSON field or in the raw JSON box, an
\* invalid date, or values that leave the require-one-of constraint of the schema unmet
CreateValidationError ==
  \/ MalformedJson(rawPayloadControl)
  \/ \E i \in 1..Len(createControls) :
       /\ createSchema.fields[i].type = "json"
       /\ MalformedJson(StringOrEmpty(createControls[i]))
  \/ \E i \in 1..Len(createControls) :
       /\ createSchema.fields[i].type = "date"
       /\ InvalidDate(StringOrEmpty(createControls[i]))
  \/ /\ createBuildPayload.thrown = "none"
     /\ ~validateSchemaRequirements(createBuildPayload.value)

\* an editable field of the detail form holds malformed JSON or an invalid date
DetailValidationError ==
  \E i \in 1..Len(form) :
    /\ ~form[i].disabled
    /\ \/ fields[i].inputType = "json" /\ MalformedJson(StringOrEmpty(form[i].value))
       \/ fields[i].inputType \in {"date", "datetime"}
          /\ InvalidDate(StringOrEmpty(form[i].value))

\* C15 validation errors stay local: submit() on a create form with a validation
\* error, and save() on a detail form with one, show an inline error and send no
\* request
C15_ValidationErrorsStayLocal ==
  [][/\ (submit /\ CreateValidationError)
          => /\ createRequests' = createRequests
             /\ (createErrorMessage' # "none" \/ createTouched')
     /\ (save /\ DetailValidationError)
          => /\ pending' = pending
             /\ errorMessage' # "none"]_vars

\* what the create form does: whenever a value is rejected by the checks of
\* buildPayload or by validateSchemaRequirements, submit() sets the message and
\* sends nothing
CreateFormRejectsLocally ==
  [][(/\ submit
      /\ \/ createBuildPayload.thrown # "none"
         \/ ~validateSchemaRequirements(createBuildPayload.value))
       => /\ createRequests' = createRequests
          /\ ~isSubmitting'
          /\ \/ createTouched' /\ FormInvalid
             \/ createErrorMessage' \in {"invalidJsonField", "invalidDate", "invalidRawJson",
                                         "requireOneOf"}]_vars

\* half an object was typed into the JSON field of the detail form and saved: the
\* PATCH is on its way and no error is shown
C15_Witness ==
  /\ entry.loaded
  /\ \E i \in 1..Len(form) :
       /\ fields[i].inputType = "json"
       /\ form[i].value = Str(<<"{", "\"", "a", "\"", ":">>)
  /\ isSaving
  /\ Len(pending) = 1
  /\ pending[1].method = "PATCH"
  /\ errorMessage = "none"

\* the keys the form never shows, in lower case
HiddenKeys ==
  {<<"i", "d">>, <<"_", "i", "d">>, <<"m", "e", "t", "a", "d", "a", "t", "a">>, <<"t", "a", "g", "s">>, <<"c", "r", "e", "a", "t", "e", "d", "_", "a", "t">>, <<"u", "p", "d", "a", "t", "e", "d", "_", "a", "t">>,
   <<"v", "i", "s", "i", "b", "i", "l", "i", "t", "y", "_", "l", "e", "v", "e", "l">>}

IsShownField(e) == toLowerCase(e.k) \notin HiddenKeys

\* the keys of the loaded record that are not hidden, in the record's order
ShownKeys == [i \in 1..Len(SelectSeq(entry.rec, IsShownField)) |->
                SelectSeq(entry.rec, IsShownField)[i].k]

IsChoiceOrExternalId(key) ==
  toLowerCase(key) \in selectFieldKeys \/ toLowerCase(key) = <<"e", "x", "t", "e", "r", "n", "a", "l", "_", "i", "d">>

\* the key contains address, street, postal or zip
IsAddressLike(key) ==
  \E part \in {<<"a", "d", "d", "r", "e", "s", "s">>, <<"s", "t", "r", "e", "e", "t">>, <<"p", "o", "s", "t", "a", "l">>, <<"z", "i", "p">>} : includes(toLowerCase(key), part)

\* C17 address-like keys: a field whose key contains address, street, postal or
\* zip, and is neither an enumerated-choice key nor external_id, is text or
\* multi-line text whatever its value
C17_AddressKeysAreText ==
  \A i \in 1..Len(fields) :
    (entry.loaded /\ IsAddressLike(fields[i].key) /\ ~IsChoiceOrExternalId(fields[i].key))
      => fields[i].inputType \in {"text", "textarea"}

\* a key with street in it and a boolean suffix holds the number 1 and is text
C17_Witness ==
  /\ entry.loaded
  /\ \E i \in 1..Len(fields) :
       /\ fields[i].key = <<"S", "t", "r", "e", "e", "t", "_", "F", "l", "a", "g">>
       /\ OriginalOf(i) = Num(1)
       /\ fields[i].inputType = "text"

\* the boolean-key heuristic
IsBooleanKeyName(key) ==
  \/ \E prefix \in {<<"i", "s", "_">>, <<"h", "a", "s", "_">>} : startsWith(toLowerCase(key), prefix)
  \/ \E suffix \in {<<"_", "f", "l", "a", "g">>, <<"_", "e", "n", "a", "b", "l", "e", "d">>, <<"_", "d", "i", "s", "a", "b", "l", "e", "d">>, <<"_", "a", "l", "l", "o", "w", "e", "d">>} :
       endsWith(toLowerCase(key), suffix)
  \/ toLowerCase(key) \in {<<"p", "i", "n", "n", "e", "d">>, <<"v", "e", "r", "i", "f", "i", "e", "d">>, <<"b", "l", "o", "c", "k", "e", "d">>, <<"a", "c", "t", "i", "v", "e">>}

\* C18 boolean versus number: under a key no earlier rule catches, the number 0
\* or 1 is boolean exactly when the key matches the boolean-key heuristic and
\* number otherwise, every other number is number, and a boolean or one of the
\* string tokens true/false/1/0/yes/no/on/off is boolean whatever the key
C18_BooleanVersusNumber ==
  \A i \in 1..Len(fields) :
    (entry.loaded /\ ~IsChoiceOrExternalId(fields[i].key) /\ ~IsAddressLike(fields[i].key))
      => /\ (OriginalOf(i).t = "number" /\ OriginalOf(i).n \in {0, 1})
              => fields[i].inputType =
                   (IF IsBooleanKeyName(fields[i].key) THEN "boolean" ELSE "number")
         /\ (OriginalOf(i).t = "number" /\ OriginalOf(i).n \notin {0, 1})
              => fields[i].inputType = "number"
         /\ OriginalOf(i).t = "boolean" => fields[i].inputType = "boolean"
         /\ (OriginalOf(i).t = "string"
             /\ OriginalOf(i).s \in {<<"t", "r", "u", "e">>, <<"f", "a", "l", "s", "e">>, <<"1">>, <<"0">>, <<"y", "e", "s">>, <<"n", "o">>, <<"o", "n">>,
                                     <<"o", "f", "f">>})
              => fields[i].inputType = "boolean"

\* the number 1 is boolean under the key pinned, and there is a record where it
\* is number under the key count
C18_Witness ==
  /\ entry.loaded
  /\ \E i \in 1..Len(fields) :
       /\ fields[i].key = <<"p", "i", "n", "n", "e", "d">>
       /\ OriginalOf(i) = Num(1)
       /\ fields[i].inputType = "boolean"
  /\ detectFieldType(<<"c", "o", "u", "n", "t">>, Num(1)) = "number"

\* the key carries a date hint or a date suffix
HasDateKey(key) == dateVariantFromKey(toLowerCase(key)) # "none"

\* C19 date rule: under a key without date hint and without date suffix that no
\* earlier rule catches, a string that parses as a date is classified date or
\* date-time
C19_DateStringsAreDates ==
  \A i \in 1..Len(fields) :
    (/\ entry.loaded
     /\ ~IsChoiceOrExternalId(fields[i].key) /\ ~IsAddressLike(fields[i].key)
     /\ ~HasDateKey(fields[i].key)
     /\ OriginalOf(i).t = "string"
     /\ ~isBooleanValue(fields[i].key, OriginalOf(i))
     /\ ~DateParse(trim(OriginalOf(i).s)).nan)
      => fields[i].inputType \in {"date", "datetime"}

\* what the classifier does: the key alone decides the date rule, and it comes
\* before the JSON and text rules
DateRuleGoesByKey ==
  \A i \in 1..Len(fields) :
    (/\ entry.loaded
     /\ ~IsChoiceOrExternalId(fields[i].key) /\ ~IsAddressLike(fields[i].key)
     /\ ~isBooleanValue(fields[i].key, OriginalOf(i))
     /\ OriginalOf(i).t # "number")
      => (fields[i].inputType \in {"date", "datetime"} <=> HasDateKey(fields[i].key))

\* the date 1990-01-02 under the key name is a text field
C19_Witness ==
  /\ entry.loaded
  /\ \E i \in 1..Len(fields) :
       /\ fields[i].key = <<"n", "a", "m", "e">>
       /\ OriginalOf(i) = Str(<<"1", "9", "9", "0", "-", "0", "1", "-", "0", "2">>)
       /\ fields[i].inputType = "text"
RECURSIVE CountPatches(_)
CountPatches(q) ==
  IF q = <<>> THEN 0
  ELSE (IF Head(q).method = "PATCH" THEN 1 ELSE 0) + CountPatches(Tail(q))

\* C21 a failed PATCH is not retried: the step in which a PATCH fails removes that
\* request and adds none, leaves the loaded record, the descriptors and the
\* edited control values as they were, sets the save error and ends isSaving;
\* a call of save() adds at most one request; and no step other than a call of
\* save() adds a PATCH
C21_FailedSaveNotRetried ==
  [][/\ (/\ errorMessage' = "saveFailed"
         /\ \E i \in 1..Len(pending) : SaveFails(i)) =>
           /\ Len(pending') = Len(pending) - 1
           /\ CountPatches(pending') = CountPatches(pending) - 1
           /\ entry' = entry
           /\ fields' = fields
           /\ form' = form
           /\ formDirty' = formDirty
           /\ ~isSaving'
     /\ (CountPatches(pending') > CountPatches(pending)) =>
           /\ save
           /\ Len(pending') = Len(pending) + 1]_vars

\* a PATCH failed while the form holds a value the record does not, and nothing is
\* in flight afterwards
C21_Witness ==
  /\ errorMessage = "saveFailed"
  /\ ~isSaving
  /\ entry.loaded
  /\ formDirty
  /\ form # BuildControls(entry.rec, canEditEntries)
  /\ Len(SavePayload) > 0
  /\ pending = <<>>
(***************************************************************************)
(* StatsService                                                            *)
(***************************************************************************)
\* an overview is held and was stored less than twenty minutes ago
HeldAndYoung ==
  /\ overviewSignal # Null
  /\ lastUpdatedSignal # Null
  /\ statsNow - lastUpdatedSignal.n < (20 * 60000)

\* C22 the TTL cache of the stats overview: a call of loadOverview issues no
\* request when an overview is held, it is younger than twenty minutes and
\* forceRefresh is false, and issues exactly one request otherwise; a failed
\* load leaves the held overview and its timestamp as they were
C22_StatsTtlCache ==
  [][/\ \A forceRefresh \in BOOLEAN :
          loadOverview(forceRefresh) =>
            IF HeldAndYoung /\ ~forceRefresh
            THEN statsRequests' = statsRequests /\ statsInFlight' = statsInFlight
            ELSE statsRequests' = statsRequests + 1 /\ statsInFlight' = statsInFlight + 1
     /\ (\E status \in StatsErrors : StatsFails(status)) =>
          /\ overviewSignal' = overviewSignal
          /\ lastUpdatedSignal' = lastUpdatedSignal]_vars

\* an overview exactly twenty minutes old was asked for again and requested
C22_Witness ==
  /\ overviewSignal # Null
  /\ lastUpdatedSignal # Null
  /\ statsNow - lastUpdatedSignal.n = (20 * 60000)
  /\ statsLastCall = [called |-> TRUE, force |-> FALSE, requested |-> TRUE]
  /\ statsInFlight = 1

\* a held overview survived a failed refresh and a later call within twenty minutes
\* of its storage was answered from it
C22_WitnessKept ==
  /\ overviewSignal # Null
  /\ statsErrorSignal # Null
  /\ HeldAndYoung
  /\ statsLastCall = [called |-> TRUE, force |-> FALSE, requested |-> FALSE]
(***************************************************************************)
(* Loads of EntryDetailComponent across route changes                      *)
(***************************************************************************)
\* C23 the current entry is the one shown: when no load is in flight, the component
\* is on a route and the last load did not fail, the record shown is the one
\* the backend serves for the current type and id, and the form is built from it
C23_CurrentEntryShown ==
  (pending = <<>> /\ route # NoRoute /\ errorMessage = "none") =>
    /\ entry.loaded
    /\ entry.rec = ServedRecord(route)
    /\ form = BuildControls(ServedRecord(route), canEditEntries)

\* what the code does with a route change that arrives during a load: it moves to
\* the new type and id and sends nothing
RouteChangeDuringLoadSendsNothing ==
  [][\A r \in Routes : (RouteChange(r) /\ isLoading) => pending' = pending]_vars

\* the component is on one route and, with nothing in flight and no error, shows
\* the record of the other
C23_Witness ==
  /\ pending = <<>>
  /\ ~isLoading
  /\ errorMessage = "none"
  /\ route = [type |-> "notes", id |-> "2"]
  /\ entry.loaded
  /\ entry.rec = ServedRecord([type |-> "persons", id |-> "1"])
(***************************************************************************)
(* Overlapping saves                                                       *)
(***************************************************************************)
\* C24 at most one PATCH of save() is in flight, and a call of save() while
\* isSaving is true sends none
C24_OnePatchInFlight == CountPatches(pending) <= 1

\* what holds when every call of save() is made behind hasChanges(): one PATCH at
\* most, in flight exactly while isSaving is true
OnePatchInFlightBehindHasChanges ==
  /\ CountPatches(pending) <= 1
  /\ isSaving <=> CountPatches(pending) = 1

\* two PATCH requests of one form are in flight
C24_Witness ==
  /\ isSaving
  /\ Len(pending) = 2
  /\ pending[1].method = "PATCH"
  /\ pending[2].method = "PATCH"
(***************************************************************************)
(* The loading flag of PersonDossierComponent                              *)
(***************************************************************************)
\* the fetch issued last has not answered yet
LatestFetchIsOut == \E request \in subscriptions : request.token = requestToken

\* C25 isLoading of PersonDossierComponent is true exactly while the fetch issued
\* last is out: it is never left true with no fetch to end it
C25_LoadingUntilLatestCompletes == dossierIsLoading <=> LatestFetchIsOut

\* the half that holds: while the fetch issued last is out, isLoading is true
LoadingWhileLatestIsOut == LatestFetchIsOut => dossierIsLoading

\* the component shows loading for a blank person id with no fetch out
C25_Witness ==
  /\ dossierIsLoading
  /\ subscriptions = {}
  /\ dossierPersonId = Str(<<" ">>)
(***************************************************************************)
(* Late answers in EntryDetailRelationsComponent                           *)
(***************************************************************************)
\* is this the person the component is on
IsCurrentPerson(personId) ==
  /\ relationsPersonId # Null
  /\ trim(relationsPersonId.s) = personId

\* C26 no stale relations: when a loadPersonRelations call settles that was made
\* for another person than the one the component is on now (or the component is
\* on none), the three lists stay as they are
C26_NoStaleRelations ==
  [][\A i \in 1..Len(loads) :
       (/\ Len(loads') < Len(loads)
        /\ loads' = RemoveAt(loads, i)
        /\ ~IsCurrentPerson(loads[i])) =>
          /\ relatedProfiles' = relatedProfiles
          /\ relatedNotes' = relatedNotes
          /\ relatedActivities' = relatedActivities]_vars

\* what the code keeps: the step in which personId becomes empty leaves the lists
\* empty
ClearRelationsEmptiesLists ==
  [][(relationsPersonId' # relationsPersonId /\ ~(\E p \in {<<"7">>, <<"8">>} : IsCurrentPerson(p)'))
       => /\ relatedProfiles' = <<>>
          /\ relatedNotes' = <<>>
          /\ relatedActivities' = <<>>]_vars

\* the component is on no person, nothing is in flight, and the lists emptied by
\* clearRelations hold profiles again
C26_Witness ==
  /\ relationsPersonId = Null
  /\ loads = <<>>
  /\ Len(relatedProfiles) > 0
(***************************************************************************)
(* Late answers in the lookup components                                   *)
(***************************************************************************)
\* C27 the latest search is the one shown: once no search is out, a result list
\* that is shown answers the search issued last; and a closed picker shows no
\* results, whatever answers arrive after closeSearch
C27_LatestSearchShown ==
  /\ (lookupInFlight = {} /\ lookupResults.shown) => lookupResults.term = lookupRequests.term
  /\ ~lookupIsOpen => ~lookupResults.shown

\* a closed picker with nothing in flight shows the results of a search
C27_Witness ==
  /\ ~lookupIsOpen
  /\ lookupInFlight = {}
  /\ lookupResults.shown

\* an open picker with nothing in flight shows the results of an earlier search than
\* the one issued last
StaleResultsShown ==
  /\ lookupIsOpen
  /\ lookupInFlight = {}
  /\ lookupResults.shown
  /\ lookupResults.term # lookupRequests.term
(***************************************************************************)
(* 304 answers of PersonDossierService                                     *)
(***************************************************************************)
\* a conditional dossier request is answered 304 and a snapshot comes back
NotModifiedHandled(i, response) ==
  /\ response.status = 304
  /\ inflight[i].kind = "dossier"
  /\ inflight[i].headers.ifNoneMatch # Null
  /\ DossierResponds(i, response)
  /\ lastResult'.kind = "snapshot"

\* C28 a 304 returns what the cache holds now: when a conditional dossier request is
\* answered 304, the key of the request is in the cache at that moment and the
\* data returned is the data of that entry
C28_NotModifiedReturnsCurrentEntry ==
  [][\A i \in 1..Len(inflight), response \in DossierResponses :
       NotModifiedHandled(i, response) =>
         /\ inflight[i].cacheKey \in DOMAIN cache
         /\ lastResult'.data = cache[inflight[i].cacheKey].data]_vars

\* what the code returns on a 304: the entry captured when the request was issued
NotModifiedReturnsCapturedEntry ==
  [][\A i \in 1..Len(inflight), response \in DossierResponses :
       NotModifiedHandled(i, response) =>
         /\ lastResult'.fromCache
         /\ lastResult'.data = inflight[i].cached.data
         /\ lastResult'.etag = inflight[i].cached.etag
         /\ cache' = cache]_vars

\* a snapshot was returned from the cache while the cache is empty
C28_Witness ==
  /\ lastResult.kind = "snapshot"
  /\ lastResult.fromCache
  /\ lastResult.data = "d1"
  /\ cache = EmptyMap
(***************************************************************************)
(* The delete dialog                                                       *)
(***************************************************************************)
\* C29 the delete dialog: at most one DELETE is in flight and isDeleting is true
\* exactly while a confirmed delete is under way; while isDeleting stays true an
\* open dialog stays open; and the step that ends a delete attempt, by an
\* answer to the DELETE or by the end of the navigation, leaves isDeleting false
\* and the dialog closed
C29_DeleteDialogDiscipline ==
  /\ [](/\ deleteInFlight <= 1
        /\ isDeleting <=> (deleteInFlight + deleteNavigating > 0))
  /\ [][/\ (isDeleting /\ isDeleting' /\ isDeleteDialogOpen) => isDeleteDialogOpen'
        /\ (isDeleting /\ ~isDeleting') => ~isDeleteDialogOpen'
        /\ (deleteInFlight' + deleteNavigating' < deleteInFlight + deleteNavigating) =>
             /\ ~isDeleting'
             /\ ~isDeleteDialogOpen']_vars

\* a second confirmation and a dismissal arrived while the DELETE was out, and the
\* dialog is still open
C29_Witness ==
  /\ isDeleting
  /\ isDeleteDialogOpen
  /\ deleteInFlight = 1
  /\ deleteCalls = 2

\* a delete attempt failed and left the dialog closed
DeleteFailedAndClosed ==
  /\ errorMessage = "deleteFailed"
  /\ ~isDeleting
  /\ ~isDeleteDialogOpen
  /\ deleteCalls > 0
  /\ deleteInFlight = 0
(***************************************************************************)
(* C30  The route guards never allow navigation for an unauthenticated     *)
(* user: they answer with the /login tree and remember the requested URL.  *)
(* A successful login consumes that URL exactly once: it navigates to it   *)
(* (or to / when none is kept) and leaves none, so that a further          *)
(* consumeRedirectUrl() returns null.  An authenticated user without edit  *)
(* rights is sent to / by editorGuard, which stores no URL.                *)
(***************************************************************************)
\* the user holds a token
HoldsToken == tokenValue # Null /\ tokenValue.s # <<>>

RefusedToLogin(guard, url) ==
  /\ guardResult' = [guard |-> guard, allowed |-> FALSE, tree |-> <<"/", "l", "o", "g", "i", "n">>]
  /\ redirectUrl' = Str(url)

C30_GuardsAndRedirectUrl ==
  /\ [][\A url \in GuardUrls :
          /\ authGuard(url) /\ ~HoldsToken => RefusedToLogin("authGuard", url)
          /\ editorGuard(url) /\ ~HoldsToken => RefusedToLogin("editorGuard", url)
          /\ editorGuard(url) /\ HoldsToken /\ ~sessionCanEdit
               => /\ guardResult' = [guard |-> "editorGuard", allowed |-> FALSE, tree |-> <<"/">>]
                  /\ redirectUrl' = redirectUrl]_vars
  /\ [][\A accessToken \in AccessTokens, canEdit \in BOOLEAN :
          LoginSucceeds(accessToken, canEdit)
            => /\ navigatedTo' = IF redirectUrl = Null THEN <<"/">> ELSE redirectUrl.s
               /\ redirectUrl' = Null]_vars
  /\ [][consumeRedirectUrl /\ lastConsumed.called /\ redirectUrl = Null
          => lastConsumed'.url = Null]_vars

\* a login has just led to the URL a guard had remembered, and the URL was then asked
\* for a second time
C30_Witness ==
  /\ HoldsToken
  /\ navigatedTo \in GuardUrls
  /\ guardResult.tree = <<"/", "l", "o", "g", "i", "n">>
  /\ lastConsumed = [called |-> TRUE, url |-> Null]
  /\ redirectUrl = Null

====
